---------------------------- MODULE Spec2Model ----------------------------
(***************************************************************************)
(* Model of the OpenTelemetry -> Prometheus text serializer                *)
(* (src/src/serialize.rs) and of the exporter that drives it               *)
(* (src/src/exporter.rs).                                                  *)
(*                                                                         *)
(* Text is modelled as a sequence of one-character strings, so that the    *)
(* tests the code makes on characters (classes, suffixes, find, replace)   *)
(* are made on characters here too.                                        *)
(***************************************************************************)
EXTENDS Naturals, Sequences, FiniteSets, TLC

VARIABLES
    pc,         \* position of the modelled call
    name,       \* argument of sanitize_name
    sanitized,  \* value returned by sanitize_name
    unit,       \* argument of convert_unit
    converted,  \* value returned by convert_unit
    rm,         \* the ResourceMetrics snapshot being serialized
    next,       \* index, in the order of serialization, of the next metric
    out,        \* the text the writer has received so far
    mark,       \* length of out when the last serialize_* call began
    config,     \* the ExporterConfig the exporter was built with
    pipeline,   \* what the reader's collect will answer
    sink,       \* the writer handed to export
    writes,     \* number of write! calls made on the sink
    collects,   \* number of calls of collect
    result,     \* what export returned
    calls,      \* the export calls running on one exporter and its clones
    recorded    \* the states the pipeline has gone through, the last one current

exporter_vars == <<config, pipeline, sink, writes, collects, result>>

vars == <<pc, name, sanitized, unit, converted, rm, next, out, mark,
          config, pipeline, sink, writes, collects, result, calls, recorded>>

(***************************************************************************)
(* Bounds of the model.                                                    *)
(***************************************************************************)
MaxNameLen == 4
MaxUnitLen == 4
MaxBuckets == 2
MaxCount == 1
MaxAttributes == 2
MaxAccepted == 12
MaxCalls == 2
MaxRecords == 1

(***************************************************************************)
(* Characters and strings.                                                 *)
(***************************************************************************)
Lower == {"a","b","c","d","e","f","g","h","i","j","k","l","m",
          "n","o","p","q","r","s","t","u","v","w","x","y","z"}
Upper == {"A","B","C","D","E","F","G","H","I","J","K","L","M",
          "N","O","P","Q","R","S","T","U","V","W","X","Y","Z"}
Digit == {"0","1","2","3","4","5","6","7","8","9"}

is_ascii_alphabetic(ch) == ch \in Lower \cup Upper
is_ascii_alphanumeric(ch) == ch \in Lower \cup Upper \cup Digit
is_whitespace(ch) == ch \in {" ", "\t", "\n", "\r"}

StringsUpTo(A, n) == UNION {[1..k -> A] : k \in 0..n}

ends_with(s, suffix) ==
    /\ Len(suffix) <= Len(s)
    /\ SubSeq(s, Len(s) - Len(suffix) + 1, Len(s)) = suffix

\* str::contains for a pattern given as a string
contains(s, pat) ==
    \E i \in 1..(Len(s) + 1) :
        /\ i + Len(pat) - 1 <= Len(s)
        /\ SubSeq(s, i, i + Len(pat) - 1) = pat

\* str::find(char): index (from 1) of the first occurrence, 0 for None
find(s, ch) ==
    IF \E i \in 1..Len(s) : s[i] = ch
    THEN CHOOSE i \in 1..Len(s) : s[i] = ch /\ \A j \in 1..(i - 1) : s[j] # ch
    ELSE 0

RECURSIVE trim_start(_)
trim_start(s) ==
    IF s # <<>> /\ is_whitespace(Head(s)) THEN trim_start(Tail(s)) ELSE s

RECURSIVE trim_end(_)
trim_end(s) ==
    IF s # <<>> /\ is_whitespace(s[Len(s)])
    THEN trim_end(SubSeq(s, 1, Len(s) - 1))
    ELSE s

trim(s) == trim_end(trim_start(s))

(***************************************************************************)
(* sanitize_name                                                           *)
(***************************************************************************)
\* first character class [a-zA-Z_:]
IsNameStartNoColon(ch) == is_ascii_alphabetic(ch) \/ ch = "_"
IsNameStart(ch) == is_ascii_alphabetic(ch) \/ ch = "_" \/ ch = ":"

\* the closure handed to chars.any(..), with its captured prev_underscore
RECURSIVE AnyNeedsSanitization(_, _)
AnyNeedsSanitization(chars, prev_underscore) ==
    IF chars = <<>> THEN FALSE
    ELSE LET ch == Head(chars) IN
         IF ch = "_"
         THEN IF prev_underscore THEN TRUE
              ELSE AnyNeedsSanitization(Tail(chars), TRUE)
         ELSE IF ~(is_ascii_alphanumeric(ch) \/ ch = ":") THEN TRUE
              ELSE AnyNeedsSanitization(Tail(chars), FALSE)

needs_sanitization(s) ==
    IF s = <<>> THEN FALSE
    ELSE IF ~IsNameStart(Head(s)) THEN TRUE
         ELSE AnyNeedsSanitization(Tail(s), FALSE)

\* one pass of String::replace("__", "_"): leftmost, non-overlapping matches
RECURSIVE ReplaceDoubleUnderscore(_)
ReplaceDoubleUnderscore(s) ==
    IF Len(s) < 2 THEN s
    ELSE IF s[1] = "_" /\ s[2] = "_"
         THEN <<"_">> \o ReplaceDoubleUnderscore(SubSeq(s, 3, Len(s)))
         ELSE <<s[1]>> \o ReplaceDoubleUnderscore(Tail(s))

\* while result.contains("__") { result = result.replace("__", "_") }
RECURSIVE CollapseUnderscores(_)
CollapseUnderscores(s) ==
    IF contains(s, <<"_", "_">>)
    THEN CollapseUnderscores(ReplaceDoubleUnderscore(s))
    ELSE s

\* the rebuild branch of sanitize_name
SanitizeRebuild(s) ==
    LET first == IF s = <<>> THEN <<>>
                 ELSE IF IsNameStart(Head(s)) THEN <<Head(s)>> ELSE <<"_">>
        rest == IF s = <<>> THEN <<>>
                ELSE [i \in 1..(Len(s) - 1) |->
                        LET ch == s[i + 1] IN
                        IF is_ascii_alphanumeric(ch) \/ ch = "_" \/ ch = ":"
                        THEN ch ELSE "_"]
    IN CollapseUnderscores(first \o rest)

sanitize_name(s) ==
    IF ~needs_sanitization(s) THEN s ELSE SanitizeRebuild(s)

(***************************************************************************)
(* convert_unit                                                            *)
(***************************************************************************)
\* the bracket removal of convert_unit, applied to the trimmed unit
without_brackets(trimmed) ==
    LET start == find(trimmed, "{")
        end == find(trimmed, "}")
    IN IF start # 0 /\ end # 0
       THEN trim(SubSeq(trimmed, 1, start - 1)
                 \o (IF end < Len(trimmed)
                     THEN SubSeq(trimmed, end + 1, Len(trimmed))
                     ELSE <<>>))
       ELSE trimmed

\* str::replace('/', "_per_")
RECURSIVE ReplaceSlash(_)
ReplaceSlash(s) ==
    IF s = <<>> THEN <<>>
    ELSE (IF Head(s) = "/" THEN <<"_","p","e","r","_">> ELSE <<Head(s)>>)
         \o ReplaceSlash(Tail(s))

\* the abbreviation table of convert_unit
UnitTable(final_unit) ==
    CASE final_unit = <<"m","s">> -> <<"m","i","l","l","i","s","e","c","o","n","d","s">>
      [] final_unit = <<"s">> -> <<"s","e","c","o","n","d","s">>
      [] final_unit = <<"m">> -> <<"m","e","t","e","r","s">>
      [] final_unit = <<"k","g">> -> <<"k","i","l","o","g","r","a","m","s">>
      [] final_unit = <<"g">> -> <<"g","r","a","m","s">>
      [] final_unit = <<"b">> -> <<"b","y","t","e","s">>
      [] final_unit = <<"b","y","t","e","s">> -> <<"b","y","t","e","s">>
      [] final_unit = <<"%">> -> <<"p","e","r","c","e","n","t">>
      [] OTHER -> final_unit

\* convert_unit from `let final_unit = ...` on: special case, slash, table
convert_final_unit(final_unit) ==
    IF final_unit = <<"1">> THEN <<"r","a","t","i","o">>
    ELSE IF contains(final_unit, <<"/">>) THEN ReplaceSlash(final_unit)
    ELSE UnitTable(final_unit)

convert_unit(u) ==
    LET trimmed == trim(u)
    IN IF trimmed = <<>> THEN <<>>
       ELSE convert_final_unit(without_brackets(trimmed))

\* add_unit_suffix
add_unit_suffix(base, u) ==
    IF u = <<>> \/ ends_with(base, u) THEN base ELSE base \o <<"_">> \o u

(***************************************************************************)
(* The writer.  A call of write! hands the writer one chunk of text; a     *)
(* function that writes returns the sequence of chunks it writes.  Where   *)
(* the text depends on the iteration order of a HashMap, which the         *)
(* language leaves open, the function returns the set of the chunk         *)
(* sequences it may write.                                                 *)
(***************************************************************************)
W(text) == <<text>>

RECURSIVE Flatten(_)
Flatten(chunks) ==
    IF chunks = <<>> THEN <<>> ELSE Head(chunks) \o Flatten(Tail(chunks))

Cat(A, B) == {a \o b : a \in A, b \in B}

RECURSIVE CatAll(_)
CatAll(sets) ==
    IF sets = <<>> THEN {<<>>} ELSE Cat(Head(sets), CatAll(Tail(sets)))

\* the orders in which a HashMap may hand out the elements of S
IterationOrders(S) ==
    {o \in [1..Cardinality(S) -> S] : \A i, j \in DOMAIN o : o[i] = o[j] => i = j}

\* Display of an unsigned integer
RECURSIVE Decimal(_)
Decimal(n) ==
    LET digit == <<"0","1","2","3","4","5","6","7","8","9">>[(n % 10) + 1]
    IN IF n < 10 THEN <<digit>> ELSE Decimal(n \div 10) \o <<digit>>

\* Numeric::serialize for a finite, non-negative, integral value
Numeric_serialize(v) == W(Decimal(v))

\* byte order of the characters, for the comparison of strings
ByteOrder ==
    <<"\t", "\n", "\r", " ", "\"", "#", "%", "+", "-", ".", "/",
      "0","1","2","3","4","5","6","7","8","9", ":", ";", "=",
      "A","B","C","D","E","F","G","H","I","J","K","L","M",
      "N","O","P","Q","R","S","T","U","V","W","X","Y","Z",
      "\\", "_",
      "a","b","c","d","e","f","g","h","i","j","k","l","m",
      "n","o","p","q","r","s","t","u","v","w","x","y","z",
      "{", "}">>

Byte(ch) == CHOOSE i \in DOMAIN ByteOrder : ByteOrder[i] = ch

\* a <= b for strings (Ord for str)
RECURSIVE StrLeq(_, _)
StrLeq(a, b) ==
    IF a = <<>> THEN TRUE
    ELSE IF b = <<>> THEN FALSE
    ELSE IF Head(a) = Head(b) THEN StrLeq(Tail(a), Tail(b))
    ELSE Byte(Head(a)) < Byte(Head(b))

\* Vec<String>::sort
RECURSIVE SortStrings(_)
SortStrings(values) ==
    IF values = <<>> THEN <<>>
    ELSE LET i == CHOOSE i \in DOMAIN values :
                      \A j \in DOMAIN values : StrLeq(values[i], values[j])
         IN <<values[i]>>
            \o SortStrings(SubSeq(values, 1, i - 1) \o SubSeq(values, i + 1, Len(values)))

\* [String]::join(";")
RECURSIVE JoinSemicolon(_)
JoinSemicolon(values) ==
    IF values = <<>> THEN <<>>
    ELSE IF Len(values) = 1 THEN values[1]
    ELSE values[1] \o <<";">> \o JoinSemicolon(Tail(values))

\* escape_label_value: format!("{:?}", value)
RECURSIVE EscapeDebug(_)
EscapeDebug(value) ==
    IF value = <<>> THEN <<>>
    ELSE LET ch == Head(value)
             esc == CASE ch = "\"" -> <<"\\", "\"">>
                      [] ch = "\\" -> <<"\\", "\\">>
                      [] ch = "\n" -> <<"\\", "n">>
                      [] ch = "\t" -> <<"\\", "t">>
                      [] ch = "\r" -> <<"\\", "r">>
                      [] OTHER -> <<ch>>
         IN esc \o EscapeDebug(Tail(value))

\* escape_label_value that only adds the quotes
EscapeLabelValueRaw(value) == <<"\"">> \o value \o <<"\"">>

escape_label_value(value) == <<"\"">> \o EscapeDebug(value) \o <<"\"">>

(***************************************************************************)
(* Labels.                                                                 *)
(***************************************************************************)
\* the grouping with insert in place of entry().or_default().push(): the
\* last attribute of a key replaces the ones before it
RECURSIVE GroupedValuesLastWins(_, _)
GroupedValuesLastWins(attributes, k) ==
    IF attributes = <<>> THEN <<>>
    ELSE LET rest == GroupedValuesLastWins(Tail(attributes), k)
         IN IF rest # <<>> THEN rest
            ELSE IF sanitize_name(Head(attributes).key) = k
                 THEN <<Head(attributes).value>> ELSE <<>>

\* the values the attributes with sanitized key k pushed, in their order
RECURSIVE GroupedValues(_, _)
GroupedValues(attributes, k) ==
    IF attributes = <<>> THEN <<>>
    ELSE (IF sanitize_name(Head(attributes).key) = k
          THEN <<Head(attributes).value>> ELSE <<>>)
         \o GroupedValues(Tail(attributes), k)

\* the loop of write_attributes_as_labels over label_map, in one order
RECURSIVE WriteLabelMap(_, _, _)
WriteLabelMap(attributes, order, first) ==
    IF order = <<>> THEN <<>>
    ELSE LET key == Head(order)
             values == GroupedValues(attributes, key)
         IN (IF first THEN <<>> ELSE W(<<",">>))
            \o W(key \o <<"=">>)
            \o (IF Len(values) = 1
                THEN W(escape_label_value(values[1]))
                ELSE W(escape_label_value(JoinSemicolon(SortStrings(values)))))
            \o WriteLabelMap(attributes, Tail(order), FALSE)

\* write_attributes_as_labels: what it may write; it returns Ok(true)
\* exactly when the attributes are not empty
write_attributes_as_labels(attributes) ==
    LET keys == {sanitize_name(attributes[i].key) : i \in DOMAIN attributes}
    IN IF attributes = <<>> THEN {<<>>}
       ELSE {WriteLabelMap(attributes, order, TRUE) : order \in IterationOrders(keys)}

S_otel_scope == <<",","o","t","e","l","_","s","c","o","p","e","_">>

RECURSIVE WriteScopeAttributes(_)
WriteScopeAttributes(attributes) ==
    IF attributes = <<>> THEN <<>>
    ELSE LET key == Head(attributes).key
         IN (IF /\ key # <<"n","a","m","e">>
                /\ key # <<"v","e","r","s","i","o","n">>
                /\ key # <<"s","c","h","e","m","a","_","u","r","l">>
             THEN W(S_otel_scope \o sanitize_name(key) \o <<"=">>
                    \o escape_label_value(Head(attributes).value))
             ELSE <<>>)
            \o WriteScopeAttributes(Tail(attributes))

\* write_scope_labels without the is_empty test on the scope name
WriteScopeLabelsNameAlways(scope) ==
    W(S_otel_scope \o <<"n","a","m","e","=">> \o escape_label_value(scope.name))
    \o WriteScopeAttributes(scope.attributes)

\* write_scope_labels; version and schema_url are <<>> for None, <<v>> for Some(v)
write_scope_labels(scope) ==
    (IF scope.name # <<>>
     THEN W(S_otel_scope \o <<"n","a","m","e","=">> \o escape_label_value(scope.name))
     ELSE <<>>)
    \o (IF scope.version # <<>> /\ scope.version[1] # <<>>
        THEN W(S_otel_scope \o <<"v","e","r","s","i","o","n","=">>
               \o escape_label_value(scope.version[1]))
        ELSE <<>>)
    \o (IF scope.schema_url # <<>> /\ scope.schema_url[1] # <<>>
        THEN W(S_otel_scope \o <<"s","c","h","e","m","a","_","u","r","l","=">>
               \o escape_label_value(scope.schema_url[1]))
        ELSE <<>>)
    \o WriteScopeAttributes(scope.attributes)

write_metric_labels(attributes, scope, has_additional_labels) ==
    LET has_scope_name == scope.name # <<>>
        has_scope_version == scope.version # <<>> /\ scope.version[1] # <<>>
        has_scope_schema == scope.schema_url # <<>> /\ scope.schema_url[1] # <<>>
        has_scope_attrs == scope.attributes # <<>>
        will_have_labels ==
            \/ attributes # <<>>
            \/ has_scope_name \/ has_scope_version \/ has_scope_schema
            \/ has_scope_attrs
            \/ has_additional_labels
        wrote_attrs == attributes # <<>>
    IN IF will_have_labels
       THEN CatAll(<< {W(<<"{">>)},
                      write_attributes_as_labels(attributes),
                      {IF \/ wrote_attrs
                          \/ has_scope_name \/ has_scope_version
                          \/ has_scope_schema \/ has_scope_attrs
                       THEN write_scope_labels(scope)
                       ELSE <<>>},
                      {W(<<"}">>)} >>)
       ELSE {<<>>}

\* write_bucket_labels without its call of write_scope_labels
WriteBucketLabelsWithoutScope(attributes, scope, le_value) ==
    LET has_attrs == attributes # <<>>
    IN CatAll(<< {W(<<"{">>)},
                 write_attributes_as_labels(attributes),
                 {IF has_attrs
                  THEN W(<<",","l","e","=">> \o escape_label_value(le_value))
                  ELSE W(<<"l","e","=">> \o escape_label_value(le_value))},
                 {W(<<"}">>)} >>)

write_bucket_labels(attributes, scope, le_value) ==
    LET has_attrs == attributes # <<>>
    IN CatAll(<< {W(<<"{">>)},
                 write_attributes_as_labels(attributes),
                 {IF has_attrs
                  THEN W(<<",","l","e","=">> \o escape_label_value(le_value))
                  ELSE W(<<"l","e","=">> \o escape_label_value(le_value))},
                 {write_scope_labels(scope)},
                 {W(<<"}">>)} >>)

(***************************************************************************)
(* Comments.                                                               *)
(***************************************************************************)
write_type_comment(final_name, metric_type) ==
    W(<<"#"," ","T","Y","P","E"," ">> \o final_name \o <<" ">> \o metric_type \o <<"\n">>)

\* write_help_comment without the is_empty test
WriteHelpCommentAlways(final_name, description) ==
    W(<<"#"," ","H","E","L","P"," ">> \o final_name \o <<" ">> \o description \o <<"\n">>)

write_help_comment(final_name, description) ==
    IF description # <<>>
    THEN W(<<"#"," ","H","E","L","P"," ">> \o final_name \o <<" ">> \o description \o <<"\n">>)
    ELSE <<>>

\* write_unit_comment without its test for an empty unit
WriteUnitCommentAlways(final_name, u) ==
    W(<<"#"," ","U","N","I","T"," ">> \o final_name \o <<" ">> \o u \o <<"\n">>)

write_unit_comment(final_name, u) ==
    IF u # <<>>
    THEN W(<<"#"," ","U","N","I","T"," ">> \o final_name \o <<" ">> \o u \o <<"\n">>)
    ELSE <<>>

(***************************************************************************)
(* Metrics.                                                                *)
(***************************************************************************)
T_gauge == <<"g","a","u","g","e">>
T_counter == <<"c","o","u","n","t","e","r">>
T_histogram == <<"h","i","s","t","o","g","r","a","m">>
S_total == <<"_","t","o","t","a","l">>

\* get_prometheus_type_and_is_monotonic with the temporality test left out
TypeIgnoringTemporality(data) ==
    CASE data.shape = "Gauge" ->
            [some |-> TRUE, type |-> T_gauge, is_monotonic |-> FALSE]
      [] data.shape = "Sum" ->
            IF data.is_monotonic
            THEN [some |-> TRUE, type |-> T_counter, is_monotonic |-> TRUE]
            ELSE [some |-> TRUE, type |-> T_gauge, is_monotonic |-> FALSE]
      [] data.shape = "Histogram" ->
            [some |-> TRUE, type |-> T_histogram, is_monotonic |-> FALSE]
      [] data.shape = "ExponentialHistogram" ->
            [some |-> FALSE, type |-> <<>>, is_monotonic |-> FALSE]

\* get_prometheus_type_and_is_monotonic with exponential histograms typed
TypeOfExponentialAsHistogram(data) ==
    CASE data.shape = "Gauge" ->
            [some |-> TRUE, type |-> T_gauge, is_monotonic |-> FALSE]
      [] data.shape = "Sum" ->
            IF data.temporality = "Cumulative" /\ data.is_monotonic
            THEN [some |-> TRUE, type |-> T_counter, is_monotonic |-> TRUE]
            ELSE [some |-> TRUE, type |-> T_gauge, is_monotonic |-> FALSE]
      [] data.shape \in {"Histogram", "ExponentialHistogram"} ->
            [some |-> TRUE, type |-> T_histogram, is_monotonic |-> FALSE]

\* the match of get_prometheus_type_and_is_monotonic; its arms for F64, U64
\* and I64 read the same, so the value type (data.vtype) decides nothing.
\* some = FALSE stands for None.
get_prometheus_type_and_is_monotonic(data) ==
    CASE data.shape = "Gauge" ->
            [some |-> TRUE, type |-> T_gauge, is_monotonic |-> FALSE]
      [] data.shape = "Sum" ->
            IF data.temporality = "Cumulative" /\ data.is_monotonic
            THEN [some |-> TRUE, type |-> T_counter, is_monotonic |-> TRUE]
            ELSE [some |-> TRUE, type |-> T_gauge, is_monotonic |-> FALSE]
      [] data.shape = "Histogram" ->
            [some |-> TRUE, type |-> T_histogram, is_monotonic |-> FALSE]
      [] data.shape = "ExponentialHistogram" ->
            [some |-> FALSE, type |-> <<>>, is_monotonic |-> FALSE]

\* one turn of the loop of serialize_gauge and of serialize_sum
SamplePoint(final_name, data_point, scope) ==
    CatAll(<< {W(final_name)},
              write_metric_labels(data_point.attributes, scope, FALSE),
              {W(<<" ">>) \o Numeric_serialize(data_point.value) \o W(<<"\n">>)} >>)

\* serialize_gauge over data points handed out in the order of a HashMap
SerializeGaugeAnyOrder(final_name, data_points, scope) ==
    UNION { CatAll([i \in DOMAIN data_points |->
                       SamplePoint(final_name, data_points[o[i]], scope)]) :
              o \in IterationOrders(DOMAIN data_points) }

RECURSIVE serialize_gauge(_, _, _)
serialize_gauge(final_name, data_points, scope) ==
    IF data_points = <<>> THEN {<<>>}
    ELSE Cat(SamplePoint(final_name, Head(data_points), scope),
             serialize_gauge(final_name, Tail(data_points), scope))

RECURSIVE serialize_sum(_, _, _)
serialize_sum(final_name, data_points, scope) ==
    IF data_points = <<>> THEN {<<>>}
    ELSE Cat(SamplePoint(final_name, Head(data_points), scope),
             serialize_sum(final_name, Tail(data_points), scope))

\* serialize_histogram: the _count line of a data point
HistogramCountLine(final_name, data_point, scope) ==
    CatAll(<< {W(final_name \o <<"_","c","o","u","n","t">>)},
              write_metric_labels(data_point.attributes, scope, FALSE),
              {W(<<" ">>) \o Numeric_serialize(data_point.count) \o W(<<"\n">>)} >>)

\* serialize_histogram: the _sum line of a data point
HistogramSumLine(final_name, data_point, scope) ==
    CatAll(<< {W(final_name \o <<"_","s","u","m">>)},
              write_metric_labels(data_point.attributes, scope, FALSE),
              {W(<<" ">>) \o Numeric_serialize(data_point.sum) \o W(<<"\n">>)} >>)

\* the bucket loop writing each bucket's own count
RECURSIVE BucketLinesNotCumulative(_, _, _, _, _)
BucketLinesNotCumulative(final_name, data_point, scope, k, cumulative_count) ==
    IF k > Len(data_point.bounds) \/ k > Len(data_point.bucket_counts) THEN {<<>>}
    ELSE Cat(CatAll(<< {W(final_name \o <<"_","b","u","c","k","e","t">>)},
                       write_bucket_labels(data_point.attributes, scope,
                                           Decimal(data_point.bounds[k])),
                       {W(<<" ">>) \o Numeric_serialize(data_point.bucket_counts[k])
                                   \o W(<<"\n">>)} >>),
             BucketLinesNotCumulative(final_name, data_point, scope, k + 1, 0))

\* serialize_histogram: the loop over bounds().zip(bucket_counts()), from
\* its k-th turn on, with cumulative_count as the turns before left it
RECURSIVE HistogramBucketLines(_, _, _, _, _)
HistogramBucketLines(final_name, data_point, scope, k, cumulative_count) ==
    IF k > Len(data_point.bounds) \/ k > Len(data_point.bucket_counts) THEN {<<>>}
    ELSE LET cumulative == cumulative_count + data_point.bucket_counts[k]
         IN Cat(CatAll(<< {W(final_name \o <<"_","b","u","c","k","e","t">>)},
                          write_bucket_labels(data_point.attributes, scope,
                                              Decimal(data_point.bounds[k])),
                          {W(<<" ">>) \o Numeric_serialize(cumulative)
                                      \o W(<<"\n">>)} >>),
                HistogramBucketLines(final_name, data_point, scope, k + 1, cumulative))

\* serialize_histogram: the final +Inf bucket line of a data point
HistogramInfLine(final_name, data_point, scope) ==
    CatAll(<< {W(final_name \o <<"_","b","u","c","k","e","t">>)},
              write_bucket_labels(data_point.attributes, scope, <<"+","I","n","f">>),
              {W(<<" ">>) \o Numeric_serialize(data_point.count) \o W(<<"\n">>)} >>)

\* a turn of the loop of serialize_histogram that writes +Inf before the
\* explicit buckets
HistogramPointInfFirst(final_name, data_point, scope) ==
    CatAll(<< HistogramCountLine(final_name, data_point, scope),
              HistogramSumLine(final_name, data_point, scope),
              HistogramInfLine(final_name, data_point, scope),
              HistogramBucketLines(final_name, data_point, scope, 1, 0) >>)

\* one turn of the loop of serialize_histogram
HistogramPoint(final_name, data_point, scope) ==
    CatAll(<< HistogramCountLine(final_name, data_point, scope),
              HistogramSumLine(final_name, data_point, scope),
              HistogramBucketLines(final_name, data_point, scope, 1, 0),
              HistogramInfLine(final_name, data_point, scope) >>)

RECURSIVE serialize_histogram(_, _, _)
serialize_histogram(final_name, data_points, scope) ==
    IF data_points = <<>> THEN {<<>>}
    ELSE Cat(HistogramPoint(final_name, Head(data_points), scope),
             serialize_histogram(final_name, Tail(data_points), scope))

\* the name with "_total" appended whether the metric is monotonic or not
FinalNameAlwaysTotal(metric, is_monotonic) ==
    LET sanitized_name == sanitize_name(metric.name)
        converted_unit == convert_unit(metric.unit)
        base_name == IF ~ends_with(sanitized_name, S_total)
                     THEN sanitized_name \o S_total
                     ELSE sanitized_name
    IN add_unit_suffix(base_name, converted_unit)

\* the name serialize_metric computes
FinalName(metric, is_monotonic) ==
    LET sanitized_name == sanitize_name(metric.name)
        converted_unit == convert_unit(metric.unit)
        base_name == IF is_monotonic
                     THEN IF ~ends_with(sanitized_name, S_total)
                          THEN sanitized_name \o S_total
                          ELSE sanitized_name
                     ELSE sanitized_name
    IN add_unit_suffix(base_name, converted_unit)

serialize_metric(metric, scope) ==
    LET data == metric.data
        t == get_prometheus_type_and_is_monotonic(data)
        converted_unit == convert_unit(metric.unit)
        final_name == FinalName(metric, t.is_monotonic)
    IN IF ~t.some THEN {<<>>}
       ELSE Cat({write_type_comment(final_name, t.type)
                 \o write_help_comment(final_name, metric.description)
                 \o write_unit_comment(final_name, converted_unit)},
                CASE data.shape = "Gauge" ->
                        serialize_gauge(final_name, data.data_points, scope)
                  [] data.shape = "Sum" ->
                        serialize_sum(final_name, data.data_points, scope)
                  [] data.shape = "Histogram" ->
                        serialize_histogram(final_name, data.data_points, scope)
                  [] OTHER -> {<<>>})

\* the label loop of serialize_resource writing the keys as they are
RECURSIVE WriteResourceLabelsUnsanitized(_, _)
WriteResourceLabelsUnsanitized(order, first) ==
    IF order = <<>> THEN <<>>
    ELSE (IF first THEN <<>> ELSE W(<<",">>))
         \o W(Head(order).key \o <<"=">>
              \o escape_label_value(Head(order).value))
         \o WriteResourceLabelsUnsanitized(Tail(order), FALSE)

\* the label loop of serialize_resource over resource.iter(), in one order
RECURSIVE WriteResourceLabels(_, _)
WriteResourceLabels(order, first) ==
    IF order = <<>> THEN <<>>
    ELSE (IF first THEN <<>> ELSE W(<<",">>))
         \o W(sanitize_name(Head(order).key) \o <<"=">>
              \o escape_label_value(Head(order).value))
         \o WriteResourceLabels(Tail(order), FALSE)

\* serialize_resource without its early return for an empty resource
SerializeResourceAlways(resource) ==
    {write_type_comment(<<"t","a","r","g","e","t","_","i","n","f","o">>, T_gauge)
     \o write_help_comment(<<"t","a","r","g","e","t","_","i","n","f","o">>, <<"T","a","r","g","e","t"," ","m","e","t","a","d","a","t","a">>)
     \o W(<<"t","a","r","g","e","t","_","i","n","f","o">>)
     \o W(<<"{">>)
     \o WriteResourceLabels(order, TRUE)
     \o W(<<"}">>)
     \o W(<<" ", "1", "\n">>) : order \in IterationOrders(resource)}

\* serialize_resource; the resource is a HashMap, here the set of its entries
serialize_resource(resource) ==
    IF resource = {} THEN {<<>>}
    ELSE {write_type_comment(<<"t","a","r","g","e","t","_","i","n","f","o">>, T_gauge)
          \o write_help_comment(<<"t","a","r","g","e","t","_","i","n","f","o">>, <<"T","a","r","g","e","t"," ","m","e","t","a","d","a","t","a">>)
          \o W(<<"t","a","r","g","e","t","_","i","n","f","o">>)
          \o W(<<"{">>)
          \o WriteResourceLabels(order, TRUE)
          \o W(<<"}">>)
          \o W(<<" ", "1", "\n">>) : order \in IterationOrders(resource)}

(***************************************************************************)
(* Inputs of the pure functions.                                           *)
(***************************************************************************)
NameAlphabet == {"a", "1", "_", ":", "."}
NameInputs == StringsUpTo(NameAlphabet, MaxNameLen)

UnitAlphabet == {"s", "m", "1", "/", "{", "}", " "}
UnitSamples ==
    { <<"m","s">>, <<"s">>, <<"m">>, <<"k","g">>, <<"g">>, <<"b">>,
      <<"b","y","t","e","s">>, <<"B","y">>, <<"%">>, <<"1">>,
      <<"r","e","q","u","e","s","t","s","/","s","e","c","o","n","d">>,
      <<"c","o","u","n","t","{","p","a","c","k","e","t","s","}">>,
      <<"{","r","e","q","u","e","s","t","}">>,
      <<"u","n","r","e","c","o","g","n","i","z","e","d">> }
UnitInputs == StringsUpTo(UnitAlphabet, MaxUnitLen) \cup UnitSamples

(***************************************************************************)
(* Specification of sanitize_name: one call on a bounded input.            *)
(***************************************************************************)
NoSerializer ==
    /\ rm = <<>> /\ next = 0 /\ out = <<>> /\ mark = 0
    /\ config = <<>> /\ pipeline = <<>> /\ sink = <<>>
    /\ writes = 0 /\ collects = 0 /\ result = <<>>
    /\ calls = <<>> /\ recorded = <<>>

InitSanitize ==
    /\ pc = "sanitize_name"
    /\ name \in NameInputs
    /\ sanitized = <<>>
    /\ unit = <<>> /\ converted = <<>>
    /\ NoSerializer

CallSanitizeName ==
    /\ pc = "sanitize_name"
    /\ sanitized' = sanitize_name(name)
    /\ pc' = "sanitize_name_done"
    /\ UNCHANGED <<name, unit, converted, rm, next, out, mark, exporter_vars, calls, recorded>>

SpecSanitize == InitSanitize /\ [][CallSanitizeName]_vars

(***************************************************************************)
(* Specification of convert_unit: one call on a bounded input.             *)
(***************************************************************************)
InitUnit ==
    /\ pc = "convert_unit"
    /\ unit \in UnitInputs
    /\ converted = <<>>
    /\ name = <<>> /\ sanitized = <<>>
    /\ NoSerializer

CallConvertUnit ==
    /\ pc = "convert_unit"
    /\ converted' = convert_unit(unit)
    /\ pc' = "convert_unit_done"
    /\ UNCHANGED <<name, sanitized, unit, rm, next, out, mark, exporter_vars, calls, recorded>>

SpecUnit == InitUnit /\ [][CallConvertUnit]_vars

(***************************************************************************)
(* Snapshots.                                                              *)
(*                                                                         *)
(* A data point carries the fields of the gauge/sum data points (value)    *)
(* and of the histogram data points (bounds, bucket_counts, count, sum);   *)
(* the fields its shape does not have are 0 or empty.                      *)
(***************************************************************************)
VTypes == {"F64", "U64", "I64"}
Temporalities == {"Cumulative", "Delta", "LowMemory"}

KV(k, v) == [key |-> k, value |-> v]

Point(attrs, v) ==
    [attributes |-> attrs, value |-> v,
     bounds |-> <<>>, bucket_counts |-> <<>>, count |-> 0, sum |-> 0]

RECURSIVE SumSeq(_)
SumSeq(q) == IF q = <<>> THEN 0 ELSE Head(q) + SumSeq(Tail(q))

\* the SDK counts every recorded value in exactly one bucket: there is one
\* bucket more than there are bounds, and count is the total of the buckets
HistogramDataPoint(attrs, bnds, counts, total) ==
    [attributes |-> attrs, value |-> 0,
     bounds |-> bnds, bucket_counts |-> counts,
     count |-> SumSeq(counts), sum |-> total]

Data(vt, sh, temp, mono, points) ==
    [vtype |-> vt, shape |-> sh, temporality |-> temp, is_monotonic |-> mono,
     data_points |-> points]

Metric(n, d, u, dat) == [name |-> n, description |-> d, unit |-> u, data |-> dat]

Scope(n, ver, url, attrs) ==
    [name |-> n, version |-> ver, schema_url |-> url, attributes |-> attrs]

MethodGet == <<KV(<<"m","e","t","h","o","d">>, <<"G","E","T">>)>>
MethodPost == <<KV(<<"m","e","t","h","o","d">>, <<"P","O","S","T">>)>>

\* the default explicit bounds of the SDK, from the smallest
DefaultBounds == <<0, 5, 10, 25, 50, 75, 100, 250, 500, 750, 1000>>

HistogramPoints ==
    { HistogramDataPoint(attrs, SubSeq(DefaultBounds, 1, nb), counts, nb + 7) :
        attrs \in {<<>>, MethodGet},
        nb \in 0..MaxBuckets,
        counts \in UNION {[1..(n + 1) -> 0..MaxCount] : n \in 0..MaxBuckets} }

WellFormedHistogramPoints ==
    {dp \in HistogramPoints : Len(dp.bucket_counts) = Len(dp.bounds) + 1}

DataKinds ==
    { Data(vt, "Gauge", "Cumulative", FALSE, <<Point(MethodGet, 3)>>) : vt \in VTypes }
    \cup
    { Data(vt, "Sum", temp, mono, <<Point(MethodGet, 1), Point(MethodPost, 12)>>) :
        vt \in VTypes, temp \in Temporalities, mono \in BOOLEAN }
    \cup
    { Data(vt, sh, temp, FALSE,
           <<HistogramDataPoint(MethodGet, <<0, 5>>, <<0, 2, 1>>, 9)>>) :
        vt \in VTypes, sh \in {"Histogram", "ExponentialHistogram"},
        temp \in {"Cumulative", "Delta"} }

MetricNames ==
    { <<"r","e","q","u","e","s","t","_","d","u","r","a","t","i","o","n">>, <<"h","t","t","p",".","r","e","q","u","e","s","t","s">>, <<"e","v","e","n","t","s","_","t","o","t","a","l">>,
      <<"u","p","t","i","m","e","_","s","e","c","o","n","d","s">>, <<"9","l","i","v","e","s">> }

MetricUnits == { <<>>, <<"s">>, <<"s","e","c","o","n","d","s">>, <<"{","r","e","q","u","e","s","t","}">>, <<"1">>, <<"B","y">> }

NamingMetrics ==
    { Metric(n, <<>>, u, dat) :
        n \in MetricNames, u \in MetricUnits,
        dat \in { Data("U64", "Sum", "Cumulative", TRUE, <<Point(<<>>, 1)>>),
                  Data("F64", "Gauge", "Cumulative", FALSE, <<Point(<<>>, 2)>>) } }

TypingMetrics ==
    { Metric(<<"a",".","b">>, <<"A","b","o","u","t"," ","a",".","b">>, <<>>, dat) : dat \in DataKinds }

HistogramMetrics ==
    { Metric(<<"h",".","d">>, d, <<"m","s">>, Data("F64", "Histogram", "Cumulative", FALSE, pts)) :
        d \in {<<"D","u","r","a","t","i","o","n">>},
        pts \in {<<dp>> : dp \in WellFormedHistogramPoints}
                \cup {<<HistogramDataPoint(MethodPost, <<0>>, <<1, 1>>, 4), dp>> :
                        dp \in {q \in WellFormedHistogramPoints : q.attributes # <<>>}} }

FocusMetrics == NamingMetrics \cup TypingMetrics \cup HistogramMetrics

ExponentialMetric ==
    Metric(<<"e",".","h">>, <<"S","p","a","r","s","e">>, <<"s">>,
           Data("F64", "ExponentialHistogram", "Cumulative", FALSE,
                <<HistogramDataPoint(<<>>, <<>>, <<1>>, 1)>>))

UptimeMetric ==
    Metric(<<"s","y","s","t","e","m",".","u","p","t","i","m","e">>, <<"U","p","t","i","m","e">>, <<"s">>,
           Data("F64", "Gauge", "Cumulative", FALSE, <<Point(<<>>, 23)>>))

Neighbours == {<<>>, <<ExponentialMetric>>, <<UptimeMetric>>}

TestScope == Scope(<<"t","e","s","t">>, <<>>, <<>>, <<>>)
BareScope == Scope(<<>>, <<>>, <<>>, <<>>)
FullScope ==
    Scope(<<"l","i","b">>, <<<<"1",".","0">>>>, <<<<"h","t","t","p",":","/","/","x">>>>, <<KV(<<"a",".","b">>, <<"c">>)>>)

Resources == { {}, {KV(<<"f","o","o">>, <<"b","a","r">>)},
               {KV(<<"s","e","r","v","i","c","e",".","n","a","m","e">>, <<"s","v","c">>), KV(<<"z","o","n","e">>, <<"z","\"","1">>)} }

ScopeMetrics(sc, ms) == [scope |-> sc, metrics |-> ms]

Snapshot(res, sms) == [resource |-> res, scope_metrics |-> sms]

Snapshots ==
    { Snapshot(res, <<ScopeMetrics(TestScope, before \o <<m>> \o after)>>) :
        res \in {{}, {KV(<<"f","o","o">>, <<"b","a","r">>)}},
        before \in Neighbours, m \in FocusMetrics, after \in Neighbours }
    \cup
    { Snapshot(res, <<ScopeMetrics(sc1, ms1), ScopeMetrics(sc2, ms2)>>) :
        res \in Resources,
        sc1 \in {BareScope, FullScope}, ms1 \in Neighbours,
        sc2 \in {TestScope, BareScope}, ms2 \in Neighbours }

\* attribute sets: up to MaxAttributes attributes with distinct keys, two
\* of the keys sanitizing to the same label name
AttributeKeys == { <<"a",".","b">>, <<"a","-","b">>, <<"c">> }
AttributeValues == { <<"x">>, <<"y">> }

AttributeSets ==
    { q \in UNION { [1..n -> {KV(k, v) : k \in AttributeKeys, v \in AttributeValues}] :
                      n \in 0..MaxAttributes } :
        \A i, j \in DOMAIN q : q[i].key = q[j].key => i = j }

LabelMetrics ==
    { Metric(<<"g">>, <<>>, <<>>, Data("I64", "Gauge", "Cumulative", FALSE, <<Point(attrs, 4)>>)) :
        attrs \in AttributeSets }
    \cup
    { Metric(<<"c">>, <<>>, <<>>, Data("U64", "Sum", "Cumulative", TRUE, <<Point(attrs, 2)>>)) :
        attrs \in {q \in AttributeSets : Len(q) # 1} }
    \cup
    { Metric(<<"h">>, <<>>, <<>>, Data("F64", "Histogram", "Cumulative", FALSE,
                                    <<HistogramDataPoint(attrs, <<5>>, <<1, 0>>, 3)>>)) :
        attrs \in AttributeSets }

\* a scope with attributes named like the fields of the scope
NameAttrScope ==
    Scope(<<"l","i","b">>, <<>>, << <<>> >>, <<KV(<<"n","a","m","e">>, <<"n">>), KV(<<"a",".","b">>, <<"c">>), KV(<<"a","_","b">>, <<"d">>)>>)
VersionAttrScope == Scope(<<>>, <<>>, <<>>, <<KV(<<"v","e","r","s","i","o","n">>, <<"v">>)>>)

LabelScopes == {TestScope, BareScope, FullScope, NameAttrScope, VersionAttrScope}

LabelSnapshots ==
    { Snapshot({}, <<ScopeMetrics(sc, <<m>>)>>) : sc \in LabelScopes, m \in LabelMetrics }

\* the snapshots the options of the builder are tried on
ConfigMetrics ==
    { Metric(<<"h","t","t","p",".","s","e","r","v","e","r",".","r","e","q","u","e","s","t",".","d","u","r","a","t","i","o","n">>, <<"D","u","r","a","t","i","o","n">>, <<"m","s">>,
             Data("F64", "Histogram", "Cumulative", FALSE,
                  <<HistogramDataPoint(<<>>, <<0, 5>>, <<0, 0, 1>>, 23)>>)),
      Metric(<<"h","t","t","p",".","r","e","q","u","e","s","t","s">>, <<>>, <<>>,
             Data("U64", "Sum", "Cumulative", TRUE, <<Point(<<>>, 1)>>)),
      Metric(<<"r","e","q","u","e","s","t",".","d","u","r","a","t","i","o","n">>, <<>>, <<"m","s">>,
             Data("U64", "Sum", "Cumulative", TRUE, <<Point(MethodGet, 1)>>)),
      Metric(<<"e","v","e","n","t","s","_","t","o","t","a","l">>, <<>>, <<"1">>,
             Data("U64", "Sum", "Cumulative", TRUE, <<Point(<<>>, 5)>>)),
      Metric(<<"q","u","e","u","e","_","t","o","t","a","l">>, <<>>, <<>>,
             Data("I64", "Sum", "Cumulative", FALSE, <<Point(<<>>, 5)>>)),
      UptimeMetric }

ConfigSnapshots ==
    { Snapshot(res, <<ScopeMetrics(sc, <<m>>)>>) :
        res \in {{}, {KV(<<"s","e","r","v","i","c","e",".","n","a","m","e">>, <<"t","e","s","t","-","s","e","r","v","i","c","e">>)}},
        sc \in {TestScope, FullScope}, m \in ConfigMetrics }

\* descriptions holding the characters a HELP line is said to escape
Descriptions == { <<"a","\n","#","b">>, <<"a","\\","b">>, <<"a","\t","b">>, <<"a","\r","b">> }

DescriptionMetrics ==
    { Metric(<<"d">>, desc, u, Data("I64", "Gauge", "Cumulative", FALSE, <<Point(<<>>, 1)>>)) :
        desc \in Descriptions, u \in {<<>>, <<"s">>} }

\* a unit no conversion rule applies to
UnitMetrics ==
    { Metric(<<"x">>, <<>>, <<"a","-","b">>, Data("I64", "Gauge", "Cumulative", FALSE, <<Point(<<>>, 1)>>)),
      Metric(<<"n">>, <<>>, <<"a","-","b">>, Data("U64", "Sum", "Cumulative", TRUE, <<Point(<<>>, 1)>>)) }

\* attribute values holding the characters a label value escapes
SpecialValues == { <<"a","\"","b">>, <<"a","\\","b">>, <<"a","\n","b">>, <<"a","\t","b">>, <<"a","\r","b">> }

EscapeMetrics ==
    { Metric(<<"v">>, <<>>, <<>>, Data("I64", "Gauge", "Cumulative", FALSE, <<Point(<<KV(<<"k">>, v)>>, 1)>>)) :
        v \in SpecialValues }
    \cup
    { Metric(<<"v">>, <<>>, <<>>, Data("I64", "Gauge", "Cumulative", FALSE,
                                     <<Point(<<KV(<<"k",".","1">>, <<"a","\"","b">>), KV(<<"k","_","1">>, <<"a","\n","b">>)>>, 1)>>)),
      Metric(<<"w">>, <<>>, <<>>, Data("F64", "Histogram", "Cumulative", FALSE,
                                     <<HistogramDataPoint(<<KV(<<"k">>, <<"a","\"","b">>)>>, <<5>>, <<1, 0>>, 3)>>)) }

\* attributes named like the labels the serializer adds itself
ReservedAttributeMetrics ==
    { Metric(<<"r">>, <<>>, <<>>, Data("I64", "Gauge", "Cumulative", FALSE, <<Point(<<KV(k, <<"x">>)>>, 1)>>)) :
        k \in { <<"o","t","e","l","_","s","c","o","p","e","_","n","a","m","e">>, <<"l","e">> } }

\* a metric named like the resource block, and two metrics of one scope
\* whose names sanitize to the same name
TargetInfoMetric ==
    Metric(<<"t","a","r","g","e","t","_","i","n","f","o">>, <<>>, <<>>, Data("I64", "Gauge", "Cumulative", FALSE, <<Point(<<>>, 1)>>))

CollidingMetrics ==
    << Metric(<<"x",".","y">>, <<>>, <<>>, Data("I64", "Gauge", "Cumulative", FALSE, <<Point(<<>>, 1)>>)),
       Metric(<<"x","_","y">>, <<>>, <<>>, Data("I64", "Gauge", "Cumulative", FALSE, <<Point(<<>>, 2)>>)) >>

\* a scope whose name and attribute value need escaping
QuoteScope == Scope(<<"s","\"","c">>, <<>>, <<>>, <<KV(<<"q">>, <<"a","\n","b">>)>>)

\* a resource with two keys that sanitize to the same label name
CollidingResource == {KV(<<"r",".","1">>, <<"a","\\","b">>), KV(<<"r","_","1">>, <<"c">>)}

EdgeSnapshots ==
    { Snapshot(res, <<ScopeMetrics(sc, <<m>>)>>) :
        res \in {{}, CollidingResource},
        sc \in {TestScope, QuoteScope},
        m \in DescriptionMetrics \cup UnitMetrics \cup EscapeMetrics
                \cup ReservedAttributeMetrics \cup {TargetInfoMetric} }
    \cup
    { Snapshot({}, <<ScopeMetrics(TestScope, CollidingMetrics)>>) }

\* the snapshots written to a sink that rejects
SinkSnapshots ==
    { Snapshot(res, <<ScopeMetrics(TestScope, ms)>>) :
        res \in Resources,
        ms \in Neighbours \cup {<<UptimeMetric, UptimeMetric>>, CollidingMetrics} }

(***************************************************************************)
(* The exporter: its configuration and the serializer built from it.       *)
(*                                                                         *)
(* serialize.rs holds the serialization under the default configuration;   *)
(* PrometheusSerializer::with_config is not part of the sources, so what   *)
(* each option changes is modelled from its description: without_units     *)
(* suppresses the unit suffix and the UNIT line, without_counter_suffixes   *)
(* suppresses "_total", without_target_info suppresses the resource block, *)
(* without_scope_info suppresses the otel_scope_* labels.                  *)
(***************************************************************************)
ExporterConfig ==
    [disable_target_info : BOOLEAN, without_units : BOOLEAN,
     without_counter_suffixes : BOOLEAN, disable_scope_info : BOOLEAN]

\* #[derive(Default)]: nothing is disabled
DefaultConfig ==
    [disable_target_info |-> FALSE, without_units |-> FALSE,
     without_counter_suffixes |-> FALSE, disable_scope_info |-> FALSE]

\* ExporterBuilder::build after the given builder calls
ExporterBuilder_build(target_info, units, counter_suffixes, scope_info) ==
    [disable_target_info |-> target_info, without_units |-> units,
     without_counter_suffixes |-> counter_suffixes, disable_scope_info |-> scope_info]

\* serialize_metric when counters get no "_total"
SerializeMetricWithoutTotal(metric, scope) ==
    LET data == metric.data
        t == get_prometheus_type_and_is_monotonic(data)
        converted_unit == convert_unit(metric.unit)
        final_name == FinalName(metric, FALSE)
    IN IF ~t.some THEN {<<>>}
       ELSE Cat({write_type_comment(final_name, t.type)
                 \o write_help_comment(final_name, metric.description)
                 \o write_unit_comment(final_name, converted_unit)},
                CASE data.shape = "Gauge" ->
                        serialize_gauge(final_name, data.data_points, scope)
                  [] data.shape = "Sum" ->
                        serialize_sum(final_name, data.data_points, scope)
                  [] data.shape = "Histogram" ->
                        serialize_histogram(final_name, data.data_points, scope)
                  [] OTHER -> {<<>>})

\* the metric as the serializer reads it when units are suppressed
WithoutUnit(metric) == [metric EXCEPT !.unit = <<>>]

\* the scope as the serializer reads it when scope labels are suppressed
WithoutScopeInfo(scope) == Scope(<<>>, <<>>, <<>>, <<>>)

PrometheusSerializer_serialize_metric(cfg, metric, scope) ==
    LET m == IF cfg.without_units THEN WithoutUnit(metric) ELSE metric
        sc == IF cfg.disable_scope_info THEN WithoutScopeInfo(scope) ELSE scope
    IN IF cfg.without_counter_suffixes
       THEN SerializeMetricWithoutTotal(m, sc)
       ELSE serialize_metric(m, sc)

PrometheusSerializer_serialize_resource(cfg, resource) ==
    IF cfg.disable_target_info THEN {<<>>} ELSE serialize_resource(resource)

(***************************************************************************)
(* The pull of the snapshot and the sink.                                  *)
(***************************************************************************)
\* ResourceMetrics::default()
DefaultResourceMetrics == Snapshot({}, <<>>)

\* the answers of collect: Ok(()) with rm filled in, or an error
CollectOk(snapshot) == [ok |-> TRUE, rm |-> snapshot, error |-> <<>>]
CollectErr(e) == [ok |-> FALSE, rm |-> DefaultResourceMetrics, error |-> e]

CollectErrors == {"AlreadyShutdown", "Timeout", "InternalFailure"}

\* a writer that accepts every write!, and one that accepts k of them and
\* rejects every later one
AcceptingSink == [rejects |-> FALSE, after |-> 0]
RejectingSink(k) == [rejects |-> TRUE, after |-> k]

\* the write! calls of a function carried on after a rejected one
WriteAllIgnoringErrors(chunks, s, done) ==
    LET room == IF s.rejects THEN s.after - done ELSE Len(chunks)
    IN IF Len(chunks) <= room
       THEN [ok |-> TRUE, written |-> chunks, attempts |-> Len(chunks)]
       ELSE [ok |-> TRUE, written |-> SubSeq(chunks, 1, room),
             attempts |-> Len(chunks)]

\* the write! calls of a function, each followed by `?`, on sink s that has
\* received `done` calls: the calls made, what the sink took, and whether
\* the function got to its Ok(())
WriteAll(chunks, s, done) ==
    LET room == IF s.rejects THEN s.after - done ELSE Len(chunks)
    IN IF Len(chunks) <= room
       THEN [ok |-> TRUE, written |-> chunks, attempts |-> Len(chunks)]
       ELSE [ok |-> FALSE, written |-> SubSeq(chunks, 1, room),
             attempts |-> room + 1]

\* an exporter, the state of its pipeline and the sink of one export
Scenario(cfg, answer, s) == [config |-> cfg, pipeline |-> answer, sink |-> s]

Scenarios ==
    { Scenario(DefaultConfig, CollectOk(snapshot), AcceptingSink) :
        snapshot \in Snapshots \cup LabelSnapshots \cup EdgeSnapshots }
    \cup
    { Scenario(cfg, CollectOk(snapshot), AcceptingSink) :
        cfg \in ExporterConfig, snapshot \in ConfigSnapshots }
    \cup
    { Scenario(DefaultConfig, CollectOk(snapshot), RejectingSink(k)) :
        snapshot \in SinkSnapshots, k \in 0..MaxAccepted }
    \cup
    { Scenario(cfg, CollectErr(e), s) :
        cfg \in {DefaultConfig, ExporterBuilder_build(TRUE, TRUE, TRUE, TRUE)},
        e \in CollectErrors,
        s \in {AcceptingSink, RejectingSink(0)} }

(***************************************************************************)
(* serialize: the metrics of every scope in turn, then the resource.       *)
(***************************************************************************)
\* the <<scope index, metric index>> pairs in the order of the two loops
\* the loops of serialize run so that a later metric is written first
RECURSIVE MetricOrderReversed(_, _, _)
MetricOrderReversed(snapshot, si, mi) ==
    IF si > Len(snapshot.scope_metrics) THEN <<>>
    ELSE IF mi > Len(snapshot.scope_metrics[si].metrics)
         THEN MetricOrderReversed(snapshot, si + 1, 1)
         ELSE MetricOrderReversed(snapshot, si, mi + 1) \o <<<<si, mi>>>>

RECURSIVE MetricOrder(_, _, _)
MetricOrder(snapshot, si, mi) ==
    IF si > Len(snapshot.scope_metrics) THEN <<>>
    ELSE IF mi > Len(snapshot.scope_metrics[si].metrics)
         THEN MetricOrder(snapshot, si + 1, 1)
         ELSE <<<<si, mi>>>> \o MetricOrder(snapshot, si, mi + 1)

Order == MetricOrder(rm, 1, 1)

ScopeAt(snapshot, at) == snapshot.scope_metrics[at[1]].scope
MetricAt(snapshot, at) == snapshot.scope_metrics[at[1]].metrics[at[2]]

\* serialize_scope_metrics, from its mi-th metric on
RECURSIVE serialize_scope_metrics(_, _)
serialize_scope_metrics(sm, mi) ==
    IF mi > Len(sm.metrics) THEN {<<>>}
    ELSE Cat(serialize_metric(sm.metrics[mi], sm.scope),
             serialize_scope_metrics(sm, mi + 1))

RECURSIVE SerializeScopes(_, _)
SerializeScopes(snapshot, si) ==
    IF si > Len(snapshot.scope_metrics) THEN {<<>>}
    ELSE Cat(serialize_scope_metrics(snapshot.scope_metrics[si], 1),
             SerializeScopes(snapshot, si + 1))

\* the texts a whole call of serialize may write to a writer that accepts
\* every write
serialize(snapshot) ==
    {Flatten(chunks) :
        chunks \in Cat(SerializeScopes(snapshot, 1),
                       serialize_resource(snapshot.resource))}

\* the loops of serialize over the scopes and their metrics, from the
\* mi-th metric of the si-th scope on, under a configuration
RECURSIVE ConfiguredScopes(_, _, _, _)
ConfiguredScopes(cfg, snapshot, si, mi) ==
    IF si > Len(snapshot.scope_metrics) THEN {<<>>}
    ELSE IF mi > Len(snapshot.scope_metrics[si].metrics)
         THEN ConfiguredScopes(cfg, snapshot, si + 1, 1)
         ELSE Cat(PrometheusSerializer_serialize_metric(
                      cfg, snapshot.scope_metrics[si].metrics[mi],
                      snapshot.scope_metrics[si].scope),
                  ConfiguredScopes(cfg, snapshot, si, mi + 1))

\* the texts a whole call of PrometheusSerializer::serialize may write to a
\* writer that accepts every write
PrometheusSerializer_serialize(cfg, snapshot) ==
    IF cfg = DefaultConfig THEN serialize(snapshot)
    ELSE {Flatten(chunks) :
            chunks \in Cat(ConfiguredScopes(cfg, snapshot, 1, 1),
                           PrometheusSerializer_serialize_resource(cfg, snapshot.resource))}

\* export is called on a built exporter; rm is ResourceMetrics::default()
Init ==
    /\ pc = "export"
    /\ \E sc \in Scenarios :
           /\ config = sc.config
           /\ pipeline = sc.pipeline
           /\ sink = sc.sink
    /\ rm = DefaultResourceMetrics
    /\ next = 1
    /\ out = <<>>
    /\ mark = 0
    /\ writes = 0 /\ collects = 0
    /\ result = <<"pending">>
    /\ name = <<>> /\ sanitized = <<>>
    /\ unit = <<>> /\ converted = <<>>
    /\ calls = <<>> /\ recorded = <<>>

\* export going on to serialize rm whatever collect answered
CollectIgnoringError ==
    /\ pc = "export"
    /\ collects' = collects + 1
    /\ rm' = pipeline.rm
    /\ pc' = "serialize"
    /\ UNCHANGED <<next, out, mark, writes, result, config, pipeline, sink,
                   name, sanitized, unit, converted, calls, recorded>>

\* export: self.inner.collect(&mut rm).map_err(std::io::Error::other)?
Collect ==
    /\ pc = "export"
    /\ collects' = collects + 1
    /\ IF pipeline.ok
       THEN /\ rm' = pipeline.rm
            /\ pc' = "serialize"
            /\ result' = result
       ELSE /\ rm' = rm
            /\ pc' = "failed"
            /\ result' = <<"Err", "Other", pipeline.error>>
    /\ UNCHANGED <<next, out, mark, writes, config, pipeline, sink,
                   name, sanitized, unit, converted, calls, recorded>>

\* one call of serialize_metric, from serialize_scope_metrics
SerializeMetric ==
    /\ pc = "serialize"
    /\ next <= Len(Order)
    /\ \E chunks \in PrometheusSerializer_serialize_metric(
                        config, MetricAt(rm, Order[next]), ScopeAt(rm, Order[next])) :
          LET w == WriteAll(chunks, sink, writes)
          IN /\ out' = out \o Flatten(w.written)
             /\ writes' = writes + w.attempts
             /\ IF w.ok
                THEN /\ next' = next + 1
                     /\ UNCHANGED <<pc, result>>
                ELSE /\ pc' = "failed"
                     /\ result' = <<"Err", "SinkWriteError">>
                     /\ UNCHANGED next
    /\ mark' = Len(out)
    /\ UNCHANGED <<rm, config, pipeline, sink, collects, name, sanitized, unit, converted, calls, recorded>>

\* the call of serialize_resource and the return of serialize
SerializeResource ==
    /\ pc = "serialize"
    /\ next > Len(Order)
    /\ \E chunks \in PrometheusSerializer_serialize_resource(config, rm.resource) :
          LET w == WriteAll(chunks, sink, writes)
          IN /\ out' = out \o Flatten(w.written)
             /\ writes' = writes + w.attempts
             /\ IF w.ok
                THEN pc' = "done" /\ result' = <<"Ok">>
                ELSE pc' = "failed" /\ result' = <<"Err", "SinkWriteError">>
    /\ mark' = Len(out)
    /\ UNCHANGED <<rm, next, config, pipeline, sink, collects,
                   name, sanitized, unit, converted, calls, recorded>>

Next == Collect \/ SerializeMetric \/ SerializeResource

Spec == Init /\ [][Next]_vars

(***************************************************************************)
(* Several export calls on one exporter and its clones.                    *)
(*                                                                         *)
(* PrometheusExporter is Clone: the clones share the reader (an Arc) and   *)
(* hold a copy of the serializer, whose only field is the configuration.   *)
(* export takes &self and a writer of the caller; its only local is rm.    *)
(* A call is a record of its position, its rm, its sink and what the sink  *)
(* has received; the instruments of the pipeline may record between any    *)
(* two steps of the calls.                                                 *)
(***************************************************************************)
Calls == 1..MaxCalls

\* the variables of the specification of a single export
single_export_vars ==
    <<pc, name, sanitized, unit, converted, rm, next, out, mark,
      sink, writes, collects, result>>

\* a gauge with two data points, the first with two attributes
PipelineGauge(v) ==
    Metric(<<"g">>, <<>>, <<>>,
           Data("I64", "Gauge", "Cumulative", FALSE,
                <<Point(<<KV(<<"a",".","b">>, <<"x">>), KV(<<"c">>, <<"y">>)>>, v), Point(<<>>, v + 1)>>))

\* the states of the pipeline: the gauge before and after a measurement
PipelineStates ==
    { Snapshot({KV(<<"f","o","o">>, <<"b","a","r">>)}, <<ScopeMetrics(TestScope, <<PipelineGauge(v)>>)>>) :
        v \in {1, 3} }

\* the writers the calls may be given, each call its own
CallSinks == {AcceptingSink, RejectingSink(7)}

NewCall(s) ==
    [pc |-> "export", rm |-> DefaultResourceMetrics, next |-> 1, out |-> <<>>,
     sink |-> s, writes |-> 0, collects |-> 0, pulled_at |-> 0,
     result |-> <<"pending">>]

InitConcurrent ==
    /\ pc = "calls"
    /\ config = DefaultConfig
    /\ \E snapshot \in PipelineStates :
          /\ pipeline = CollectOk(snapshot)
          /\ recorded = <<snapshot>>
    /\ \E sinks \in [Calls -> CallSinks] :
          calls = [c \in Calls |-> NewCall(sinks[c])]
    /\ rm = <<>> /\ next = 0 /\ out = <<>> /\ mark = 0
    /\ sink = <<>> /\ writes = 0 /\ collects = 0 /\ result = <<>>
    /\ name = <<>> /\ sanitized = <<>>
    /\ unit = <<>> /\ converted = <<>>

\* an instrument records a measurement: the pipeline changes state
Record ==
    /\ Len(recorded) <= MaxRecords
    /\ \E snapshot \in PipelineStates \ {pipeline.rm} :
          /\ pipeline' = CollectOk(snapshot)
          /\ recorded' = Append(recorded, snapshot)
    /\ UNCHANGED <<calls, config, single_export_vars>>

\* let mut rm = ResourceMetrics::default(); self.inner.collect(&mut rm):
\* the rm of call c after collect has answered
Pulled(cs, c, answer) == answer.rm

\* the writes of a call reaching a buffer that every call shares
WrittenToSharedBuffer(cs, c, text) ==
    [d \in DOMAIN cs |-> [cs[d] EXCEPT !.out = @ \o text]]

\* self.serializer.serialize(&rm, writer): the text goes to the writer of
\* the call
Written(cs, c, text) == [cs EXCEPT ![c].out = @ \o text]

ExportCollect(c) ==
    /\ calls[c].pc = "export"
    /\ pipeline.ok
    /\ calls' = [calls EXCEPT ![c].rm = Pulled(calls, c, pipeline),
                              ![c].collects = @ + 1,
                              ![c].pulled_at = Len(recorded),
                              ![c].pc = "serialize"]
    /\ UNCHANGED <<pipeline, recorded, config, single_export_vars>>

ExportSerializeMetric(c) ==
    LET call == calls[c]
        order == MetricOrder(call.rm, 1, 1)
    IN /\ call.pc = "serialize"
       /\ call.next <= Len(order)
       /\ \E chunks \in PrometheusSerializer_serialize_metric(
                          config, MetricAt(call.rm, order[call.next]),
                          ScopeAt(call.rm, order[call.next])) :
             LET w == WriteAll(chunks, call.sink, call.writes)
                 cs == Written(calls, c, Flatten(w.written))
             IN calls' = IF w.ok
                         THEN [cs EXCEPT ![c].writes = @ + w.attempts,
                                         ![c].next = @ + 1]
                         ELSE [cs EXCEPT ![c].writes = @ + w.attempts,
                                         ![c].pc = "failed",
                                         ![c].result = <<"Err", "SinkWriteError">>]
       /\ UNCHANGED <<pipeline, recorded, config, single_export_vars>>

ExportSerializeResource(c) ==
    LET call == calls[c]
    IN /\ call.pc = "serialize"
       /\ call.next > Len(MetricOrder(call.rm, 1, 1))
       /\ \E chunks \in PrometheusSerializer_serialize_resource(config, call.rm.resource) :
             LET w == WriteAll(chunks, call.sink, call.writes)
                 cs == Written(calls, c, Flatten(w.written))
             IN calls' = IF w.ok
                         THEN [cs EXCEPT ![c].writes = @ + w.attempts,
                                         ![c].pc = "done",
                                         ![c].result = <<"Ok">>]
                         ELSE [cs EXCEPT ![c].writes = @ + w.attempts,
                                         ![c].pc = "failed",
                                         ![c].result = <<"Err", "SinkWriteError">>]
       /\ UNCHANGED <<pipeline, recorded, config, single_export_vars>>

NextConcurrent ==
    \/ Record
    \/ \E c \in Calls : ExportCollect(c)
    \/ \E c \in Calls : ExportSerializeMetric(c)
    \/ \E c \in Calls : ExportSerializeResource(c)

SpecConcurrent == InitConcurrent /\ [][NextConcurrent]_vars

(***************************************************************************)
(* Vocabulary of the claims.                                               *)
(***************************************************************************)
IdentStartChars == Lower \cup Upper \cup {"_", ":"}
IdentChars == Lower \cup Upper \cup Digit \cup {"_", ":"}

\* s matches [A-Za-z_:][A-Za-z0-9_:]*
MatchesIdentifier(s) ==
    /\ s # <<>>
    /\ s[1] \in IdentStartChars
    /\ \A i \in 2..Len(s) : s[i] \in IdentChars

HasDoubleUnderscore(s) ==
    \E i \in 1..(Len(s) - 1) : s[i] = "_" /\ s[i + 1] = "_"

\* the empty string, or a legal identifier free of double underscores
AlreadySanitized(s) ==
    s = <<>> \/ (MatchesIdentifier(s) /\ ~HasDoubleUnderscore(s))

SanitizeReturned == pc = "sanitize_name_done"
ConvertReturned == pc = "convert_unit_done"

(***************************************************************************)
(* C2: sanitize_name returns the empty string or a string that matches     *)
(* [A-Za-z_:][A-Za-z0-9_:]* and holds no two consecutive underscores, the  *)
(* start of the string included.                                           *)
(***************************************************************************)
C2_SanitizedIsLegal ==
    SanitizeReturned => AlreadySanitized(sanitized)

(***************************************************************************)
(* C3: sanitize_name returns its input unchanged when the input is empty   *)
(* or already matches [A-Za-z_:][A-Za-z0-9_:]* without a double underscore.*)
(***************************************************************************)
C3_ValidNameUnchanged ==
    (SanitizeReturned /\ AlreadySanitized(name)) => sanitized = name

C3_Witness ==
    /\ SanitizeReturned
    /\ Len(name) = MaxNameLen
    /\ name[1] = ":"
    /\ \E i \in 2..Len(name) : name[i] = "_"
    /\ AlreadySanitized(name)
    /\ sanitized = name

(***************************************************************************)
(* C4: for an input that is not already a legal identifier free of double  *)
(* underscores, sanitize_name returns the rebuild of the input: an illegal *)
(* first character replaced by "_", every illegal later character replaced *)
(* by "_", then each run of two or more underscores collapsed to one.      *)
(***************************************************************************)
RECURSIVE C4_CollapseRuns(_)
C4_CollapseRuns(s) ==
    IF Len(s) < 2 THEN s
    ELSE IF s[1] = "_" /\ s[2] = "_" THEN C4_CollapseRuns(Tail(s))
         ELSE <<s[1]>> \o C4_CollapseRuns(Tail(s))

C4_Rebuild(s) ==
    C4_CollapseRuns(
        [i \in 1..Len(s) |->
            IF i = 1
            THEN (IF s[i] \in IdentStartChars THEN s[i] ELSE "_")
            ELSE (IF s[i] \in IdentChars THEN s[i] ELSE "_")])

C4_InvalidNameRebuilt ==
    (SanitizeReturned /\ ~AlreadySanitized(name)) => sanitized = C4_Rebuild(name)

(***************************************************************************)
(* C5: for a unit without braces, convert_unit returns the empty string    *)
(* when the trimmed unit is empty, "ratio" for "1", the unit with every    *)
(* "/" replaced by "_per_" when it holds a slash, otherwise the table      *)
(* value (ms, s, m, kg, g, b, bytes, By, %), and the trimmed unit          *)
(* unchanged for anything else.                                            *)
(***************************************************************************)
HasBrace(s) == \E i \in 1..Len(s) : s[i] \in {"{", "}"}

RECURSIVE C5_SlashToPer(_)
C5_SlashToPer(s) ==
    IF s = <<>> THEN <<>>
    ELSE IF Head(s) = "/" THEN <<"_","p","e","r","_">> \o C5_SlashToPer(Tail(s))
         ELSE <<Head(s)>> \o C5_SlashToPer(Tail(s))

C5_Table ==
    { << <<"m","s">>, <<"m","i","l","l","i","s","e","c","o","n","d","s">> >>,
      << <<"s">>, <<"s","e","c","o","n","d","s">> >>,
      << <<"m">>, <<"m","e","t","e","r","s">> >>,
      << <<"k","g">>, <<"k","i","l","o","g","r","a","m","s">> >>,
      << <<"g">>, <<"g","r","a","m","s">> >>,
      << <<"b">>, <<"b","y","t","e","s">> >>,
      << <<"b","y","t","e","s">>, <<"b","y","t","e","s">> >>,
      << <<"B","y">>, <<"b","y","t","e","s">> >>,
      << <<"%">>, <<"p","e","r","c","e","n","t">> >> }

C5_Expected(u) ==
    LET t == trim(u)
    IN IF t = <<>> THEN <<>>
       ELSE IF t = <<"1">> THEN <<"r","a","t","i","o">>
       ELSE IF \E i \in 1..Len(t) : t[i] = "/" THEN C5_SlashToPer(t)
       ELSE IF \E e \in C5_Table : e[1] = t
            THEN (CHOOSE e \in C5_Table : e[1] = t)[2]
            ELSE t

C5_BraceFreeUnitConverted ==
    (ConvertReturned /\ ~HasBrace(unit)) => converted = C5_Expected(unit)

(***************************************************************************)
(* C6: for a unit that holds an opening brace followed later by a closing  *)
(* brace, convert_unit removes exactly the span from the first "{" through *)
(* its closing "}" and continues the conversion on the trimmed             *)
(* concatenation of the text before and the text after the span, also when *)
(* a "}" occurs before the first "{".                                      *)
(***************************************************************************)
C6_Open(u) == CHOOSE i \in 1..Len(u) : u[i] = "{" /\ \A j \in 1..(i - 1) : u[j] # "{"

C6_HasSpan(u) ==
    /\ \E i \in 1..Len(u) : u[i] = "{"
    /\ \E k \in (C6_Open(u) + 1)..Len(u) : u[k] = "}"

C6_Close(u) ==
    CHOOSE k \in (C6_Open(u) + 1)..Len(u) :
        u[k] = "}" /\ \A j \in (C6_Open(u) + 1)..(k - 1) : u[j] # "}"

C6_Remainder(u) ==
    trim(SubSeq(u, 1, C6_Open(u) - 1) \o SubSeq(u, C6_Close(u) + 1, Len(u)))

C6_BracketSpanRemoved ==
    (ConvertReturned /\ C6_HasSpan(unit)) =>
        converted = convert_final_unit(C6_Remainder(unit))

(***************************************************************************)
(* Reading the written text.                                               *)
(***************************************************************************)
\* a call of serialize_metric has just returned
AfterMetric == pc = "serialize" /\ next > 1

LastMetric == MetricAt(rm, Order[next - 1])

\* what the last call wrote
LastWritten == SubSeq(out, mark + 1, Len(out))

\* the lines of a text, each without its line feed
RECURSIVE SplitLines(_)
SplitLines(text) ==
    IF text = <<>> THEN <<>>
    ELSE LET n == find(text, "\n")
         IN IF n = 0 THEN <<text>>
            ELSE <<SubSeq(text, 1, n - 1)>> \o SplitLines(SubSeq(text, n + 1, Len(text)))

LastLines == SplitLines(LastWritten)

IsSampleLine(line) == line # <<>> /\ line[1] # "#"

LastSamples == SelectSeq(LastLines, IsSampleLine)

\* the metric name of a sample line: the text before its label block or value
SampleName(line) ==
    LET stops == {i \in 1..Len(line) : line[i] \in {"{", " "}}
    IN IF stops = {} THEN line
       ELSE SubSeq(line, 1, (CHOOSE i \in stops : \A j \in stops : i <= j) - 1)

\* the text after the last space of a line
LastField(line) ==
    LET spaces == {i \in 1..Len(line) : line[i] = " "}
    IN IF spaces = {} THEN line
       ELSE SubSeq(line, (CHOOSE i \in spaces : \A j \in spaces : j <= i) + 1, Len(line))

\* the name of a TYPE line: the text between "# TYPE " and the kind
TypeLineName(line) == SubSeq(line, 8, Len(line) - Len(LastField(line)) - 1)

\* the index of the first occurrence of pat in s, 0 when there is none
FindText(s, pat) ==
    LET hits == {i \in 1..Len(s) :
                    i + Len(pat) - 1 <= Len(s) /\ SubSeq(s, i, i + Len(pat) - 1) = pat}
    IN IF hits = {} THEN 0 ELSE CHOOSE i \in hits : \A j \in hits : i <= j

\* the value of the le label of a bucket line
LeValue(line) ==
    LET at == FindText(line, <<"l","e","=","\"">>)
        rest == SubSeq(line, at + 4, Len(line))
    IN IF at = 0 THEN <<>> ELSE SubSeq(rest, 1, find(rest, "\"") - 1)

IsDecimal(text) == text # <<>> /\ \A i \in 1..Len(text) : text[i] \in Digit

RECURSIVE ParseDecimal(_)
ParseDecimal(text) ==
    IF text = <<>> THEN 0
    ELSE 10 * ParseDecimal(SubSeq(text, 1, Len(text) - 1))
         + (CHOOSE d \in 0..9 : Decimal(d) = <<text[Len(text)]>>)

IsCounterData(data) ==
    data.shape = "Sum" /\ data.temporality = "Cumulative" /\ data.is_monotonic

(***************************************************************************)
(* C1: under the default configuration, for a metric rendered as a counter *)
(* whose converted unit U is not empty and whose sanitized name N ends     *)
(* with neither U nor "_total", the                                        *)
(* name in the TYPE line and in the sample lines is N_U_total: the unit    *)
(* suffix comes first and "_total" comes last.                             *)
(***************************************************************************)
C1_CounterNameUnitThenTotal ==
    AfterMetric =>
        LET N == sanitize_name(LastMetric.name)
            U == convert_unit(LastMetric.unit)
            expected == N \o <<"_">> \o U \o <<"_","t","o","t","a","l">>
        IN (/\ config = DefaultConfig
            /\ IsCounterData(LastMetric.data)
            /\ U # <<>>
            /\ ~ends_with(N, U)
            /\ ~ends_with(N, <<"_","t","o","t","a","l">>))
           => /\ LastLines # <<>>
              /\ LastLines[1] = <<"#"," ","T","Y","P","E"," ">> \o expected \o <<" ","c","o","u","n","t","e","r">>
              /\ \A i \in DOMAIN LastSamples : SampleName(LastSamples[i]) = expected

(***************************************************************************)
(* C7: for every value type, the kind in the TYPE line is "counter"        *)
(* exactly when the data is a cumulative monotonic Sum; every other Sum    *)
(* and every Gauge is "gauge"; every fixed-bucket Histogram is "histogram".*)
(***************************************************************************)
C7_TypeLineKind ==
    (AfterMetric /\ LastMetric.data.shape # "ExponentialHistogram") =>
        /\ LastLines # <<>>
        /\ SubSeq(LastLines[1], 1, 7) = <<"#"," ","T","Y","P","E"," ">>
        /\ LET kind == LastField(LastLines[1])
               data == LastMetric.data
           IN /\ kind = <<"c","o","u","n","t","e","r">> <=> IsCounterData(data)
              /\ data.shape = "Gauge" => kind = <<"g","a","u","g","e">>
              /\ (data.shape = "Sum" /\ ~IsCounterData(data)) => kind = <<"g","a","u","g","e">>
              /\ data.shape = "Histogram" => kind = <<"h","i","s","t","o","g","r","a","m">>

C7_Witness ==
    /\ AfterMetric
    /\ LastMetric.data.vtype = "I64"
    /\ LastMetric.data.shape = "Sum"
    /\ LastMetric.data.temporality = "Delta"
    /\ LastMetric.data.is_monotonic
    /\ LastLines # <<>>
    /\ LastField(LastLines[1]) = <<"g","a","u","g","e">>

(***************************************************************************)
(* C8: an exponential-histogram metric contributes nothing to the output,  *)
(* does not stop the serialization, and the metrics before and after it    *)
(* are rendered exactly as if it were absent.                              *)
(***************************************************************************)
IsRendered(metric) == metric.data.shape # "ExponentialHistogram"

WithoutExponential(snapshot) ==
    [snapshot EXCEPT !.scope_metrics =
        [si \in DOMAIN snapshot.scope_metrics |->
            [snapshot.scope_metrics[si] EXCEPT !.metrics = SelectSeq(@, IsRendered)]]]

C8_ExponentialHistogramSkipped ==
    /\ (AfterMetric /\ ~IsRendered(LastMetric)) => LastWritten = <<>>
    /\ (pc = "done" /\ WithoutExponential(rm) # rm) =>
          out \in PrometheusSerializer_serialize(config, WithoutExponential(rm))

C8_Witness ==
    /\ pc = "done"
    /\ \E si \in DOMAIN rm.scope_metrics :
         LET ms == rm.scope_metrics[si].metrics
         IN /\ Len(ms) = 3
            /\ IsRendered(ms[1]) /\ ~IsRendered(ms[2]) /\ IsRendered(ms[3])
    /\ out \in PrometheusSerializer_serialize(config, WithoutExponential(rm))
    /\ out # <<>>

(***************************************************************************)
(* C9: for a histogram data point whose count is the total of its bucket   *)
(* counts, there is one _bucket line per explicit boundary plus the +Inf   *)
(* line, in the ascending order of the boundaries; the k-th line carries   *)
(* the total of the first k bucket counts, the values never decrease, and  *)
(* the last line has le="+Inf" and the data point's count.                 *)
(***************************************************************************)
IsBucketLine(line) == ends_with(SampleName(line), <<"_","b","u","c","k","e","t">>)

LastBucketLines == SelectSeq(LastLines, IsBucketLine)

\* the number of bucket lines of the data points before the d-th
RECURSIVE BucketLinesBefore(_, _)
BucketLinesBefore(data_points, d) ==
    IF d <= 1 THEN 0
    ELSE BucketLinesBefore(data_points, d - 1) + Len(data_points[d - 1].bounds) + 1

C9_PointBuckets(lines, dp) ==
    LET nb == Len(dp.bounds)
    IN /\ \A k \in 1..nb :
            /\ LeValue(lines[k]) = Decimal(dp.bounds[k])
            /\ LastField(lines[k]) = Decimal(SumSeq(SubSeq(dp.bucket_counts, 1, k)))
       /\ \A k \in 1..(nb - 1) :
            ParseDecimal(LeValue(lines[k])) < ParseDecimal(LeValue(lines[k + 1]))
       /\ \A k \in 1..(nb + 1) : IsDecimal(LastField(lines[k]))
       /\ \A k \in 1..nb :
            ParseDecimal(LastField(lines[k])) <= ParseDecimal(LastField(lines[k + 1]))
       /\ LeValue(lines[nb + 1]) = <<"+","I","n","f">>
       /\ LastField(lines[nb + 1]) = Decimal(dp.count)

C9_CumulativeBuckets ==
    (AfterMetric /\ LastMetric.data.shape = "Histogram") =>
        LET dps == LastMetric.data.data_points
            buckets == LastBucketLines
        IN /\ Len(buckets) = BucketLinesBefore(dps, Len(dps) + 1)
           /\ \A d \in DOMAIN dps :
                dps[d].count = SumSeq(dps[d].bucket_counts) =>
                    LET from == BucketLinesBefore(dps, d)
                    IN /\ from + Len(dps[d].bounds) + 1 <= Len(buckets)
                       /\ C9_PointBuckets(
                            SubSeq(buckets, from + 1,
                                   from + Len(dps[d].bounds) + 1), dps[d])

C9_Witness ==
    /\ AfterMetric
    /\ LastMetric.data.shape = "Histogram"
    /\ LET dps == LastMetric.data.data_points
       IN /\ Len(dps) = 2
          /\ Len(dps[2].bounds) = MaxBuckets
          /\ \A k \in DOMAIN dps[2].bucket_counts : dps[2].bucket_counts[k] = MaxCount
          /\ Len(LastBucketLines) = Len(dps[1].bounds) + Len(dps[2].bounds) + 2
          /\ LastField(LastBucketLines[Len(LastBucketLines)]) = Decimal(dps[2].count)

(***************************************************************************)
(* C10 as stated: for every histogram data point the sample lines are, in  *)
(* this order, the _sum line, the _count line, one _bucket line per        *)
(* explicit boundary, and the le="+Inf" bucket line.                       *)
(***************************************************************************)
\* the number of sample lines of the data points before the d-th
RECURSIVE SampleLinesBefore(_, _)
SampleLinesBefore(data_points, d) ==
    IF d <= 1 THEN 0
    ELSE SampleLinesBefore(data_points, d - 1) + Len(data_points[d - 1].bounds) + 3

HistogramLineOrder(first, second) ==
    (AfterMetric /\ LastMetric.data.shape = "Histogram") =>
        LET dps == LastMetric.data.data_points
            final_name == TypeLineName(LastLines[1])
            samples == LastSamples
        IN /\ Len(samples) = SampleLinesBefore(dps, Len(dps) + 1)
           /\ \A d \in DOMAIN dps :
                LET from == SampleLinesBefore(dps, d)
                    nb == Len(dps[d].bounds)
                IN /\ SampleName(samples[from + 1]) = final_name \o first
                   /\ SampleName(samples[from + 2]) = final_name \o second
                   /\ \A k \in 1..nb :
                        /\ SampleName(samples[from + 2 + k]) = final_name \o <<"_","b","u","c","k","e","t">>
                        /\ LeValue(samples[from + 2 + k]) = Decimal(dps[d].bounds[k])
                   /\ SampleName(samples[from + nb + 3]) = final_name \o <<"_","b","u","c","k","e","t">>
                   /\ LeValue(samples[from + nb + 3]) = <<"+","I","n","f">>

C10_SumThenCount == HistogramLineOrder(<<"_","s","u","m">>, <<"_","c","o","u","n","t">>)

(***************************************************************************)
(* C10 as amended: for every histogram data point the sample lines are, in *)
(* this order, the _count line, the _sum line, one _bucket line per        *)
(* explicit boundary, and the le="+Inf" bucket line.                       *)
(***************************************************************************)
C10_CountThenSum == HistogramLineOrder(<<"_","c","o","u","n","t">>, <<"_","s","u","m">>)

C10_Witness ==
    /\ AfterMetric
    /\ LastMetric.data.shape = "Histogram"
    /\ LET dps == LastMetric.data.data_points
       IN /\ Len(dps) = 2
          /\ Len(dps[2].bounds) = MaxBuckets
          /\ Len(LastSamples) = Len(dps[1].bounds) + Len(dps[2].bounds) + 6
          /\ ends_with(SampleName(LastSamples[1]), <<"_","c","o","u","n","t">>)
          /\ LeValue(LastSamples[Len(LastSamples)]) = <<"+","I","n","f">>

(***************************************************************************)
(* Reading label blocks.                                                   *)
(***************************************************************************)
\* the index of the quote that closes a quoted string, scanning from j; a
\* backslash takes the character after it with it; 0 when there is none
RECURSIVE ClosingQuote(_, _)
ClosingQuote(s, j) ==
    IF j > Len(s) THEN 0
    ELSE IF s[j] = "\\" THEN ClosingQuote(s, j + 2)
    ELSE IF s[j] = "\"" THEN j
    ELSE ClosingQuote(s, j + 1)

Malformed == [ok |-> FALSE, pairs |-> <<>>, end |-> 0]

\* the key="value" pairs of a label block read from s[i], the character
\* after "{" or after a separating comma, up to the closing "}" at `end`
RECURSIVE ParsePairs(_, _)
ParsePairs(s, i) ==
    LET eqs == {j \in i..Len(s) : s[j] = "="}
        eq == CHOOSE j \in eqs : \A k \in eqs : j <= k
        key == SubSeq(s, i, eq - 1)
        close == ClosingQuote(s, eq + 2)
        pair == [key |-> key, value |-> SubSeq(s, eq + 2, close - 1)]
    IN IF eqs = {} THEN Malformed
       ELSE IF \/ key = <<>>
               \/ \E k \in DOMAIN key : key[k] \notin IdentChars
               \/ eq + 1 > Len(s)
               \/ s[eq + 1] # "\""
               \/ close = 0
               \/ close + 1 > Len(s)
            THEN Malformed
       ELSE IF s[close + 1] = "}"
            THEN [ok |-> TRUE, pairs |-> <<pair>>, end |-> close + 1]
       ELSE IF s[close + 1] = ","
            THEN LET r == ParsePairs(s, close + 2)
                 IN [ok |-> r.ok, pairs |-> <<pair>> \o r.pairs, end |-> r.end]
       ELSE Malformed

HasLabelBlock(line) ==
    Len(SampleName(line)) < Len(line) /\ line[Len(SampleName(line)) + 1] = "{"

\* the label block of a sample line
LabelBlock(line) == ParsePairs(line, Len(SampleName(line)) + 2)

Labels(line) == IF HasLabelBlock(line) THEN LabelBlock(line).pairs ELSE <<>>

\* the parts of a text between separators
RECURSIVE Split(_, _)
Split(text, sep) ==
    LET n == find(text, sep)
    IN IF n = 0 THEN <<text>>
       ELSE <<SubSeq(text, 1, n - 1)>> \o Split(SubSeq(text, n + 1, Len(text)), sep)

\* the data point the i-th sample line of a metric was written for
PointOfLine(metric, i) ==
    LET dps == metric.data.data_points
    IN IF metric.data.shape = "Histogram"
       THEN dps[CHOOSE d \in DOMAIN dps :
                    SampleLinesBefore(dps, d) < i /\ i <= SampleLinesBefore(dps, d + 1)]
       ELSE dps[i]

StartsWith(s, prefix) ==
    Len(prefix) <= Len(s) /\ SubSeq(s, 1, Len(prefix)) = prefix

IsScopeLabel(pair) == StartsWith(pair.key, <<"o","t","e","l","_","s","c","o","p","e","_">>)
IsAttributeLabel(pair) == ~IsScopeLabel(pair) /\ pair.key # <<"l","e">>

AttributeLabels(line) == SelectSeq(Labels(line), IsAttributeLabel)

\* the labels of a line written for the attributes of its data point: the
\* attributes come first in a label block, one label per sanitized key;
\* the empty sequence when a later label is none the serializer adds
PointLabels(line, attributes) ==
    LET all == Labels(line)
        n == Cardinality({sanitize_name(attributes[a].key) : a \in DOMAIN attributes})
    IN IF n <= Len(all) /\ \A l \in (n + 1)..Len(all) : ~IsAttributeLabel(all[l])
       THEN SubSeq(all, 1, n)
       ELSE <<>>

\* the attributes of a data point whose key sanitizes to k
SameLabel(attributes, k) ==
    {j \in DOMAIN attributes : sanitize_name(attributes[j].key) = k}

Occurrences(q, v) == Cardinality({i \in DOMAIN q : q[i] = v})

(***************************************************************************)
(* C11: for every data point, the attribute labels of each of its sample   *)
(* lines are one label per distinct sanitized attribute key; the value of  *)
(* a label is made of the values of the attributes that sanitize to its    *)
(* key, each exactly once, separated by ";": no value is dropped.          *)
(***************************************************************************)
C11_LineLabels(line, attributes) ==
    LET labels == PointLabels(line, attributes)
    IN /\ \A a \in DOMAIN attributes :
            \E l \in DOMAIN labels : labels[l].key = sanitize_name(attributes[a].key)
       /\ \A l, m \in DOMAIN labels : labels[l].key = labels[m].key => l = m
       /\ \A l \in DOMAIN labels :
            LET same == SameLabel(attributes, labels[l].key)
                parts == Split(labels[l].value, ";")
            IN /\ same # {}
               /\ Len(parts) = Cardinality(same)
               /\ \A v \in {EscapeDebug(attributes[j].value) : j \in same} :
                    Occurrences(parts, v)
                        = Cardinality({j \in same : EscapeDebug(attributes[j].value) = v})

C11_AttributeLabelsMerged ==
    (AfterMetric /\ IsRendered(LastMetric)) =>
        LET samples == LastSamples
            metric == LastMetric
        IN \A i \in DOMAIN samples :
              C11_LineLabels(samples[i], PointOfLine(metric, i).attributes)

C11_Witness ==
    /\ AfterMetric
    /\ LastMetric.data.shape = "Histogram"
    /\ LET attributes == LastMetric.data.data_points[1].attributes
       IN /\ Len(attributes) = MaxAttributes
          /\ \A a, b \in DOMAIN attributes :
                /\ sanitize_name(attributes[a].key) = <<"a","_","b">>
                /\ a # b => attributes[a].value # attributes[b].value
    /\ Len(LastSamples) = 4
    /\ \A i \in DOMAIN LastSamples :
          /\ Len(AttributeLabels(LastSamples[i])) = 1
          /\ AttributeLabels(LastSamples[i])[1].value = <<"x",";","y">>

(***************************************************************************)
(* C12: when several attributes of a data point sanitize to the same key,  *)
(* the values joined by ";" stand in the order of their original keys,     *)
(* whatever the values are.                                                *)
(***************************************************************************)
\* the values of the attributes in `same`, in the order of their keys
RECURSIVE C12_ByOriginalKey(_, _)
C12_ByOriginalKey(attributes, same) ==
    IF same = {} THEN <<>>
    ELSE LET j == CHOOSE j \in same :
                      \A k \in same : StrLeq(attributes[j].key, attributes[k].key)
         IN <<attributes[j].value>> \o C12_ByOriginalKey(attributes, same \ {j})

C12_LineLabels(line, attributes) ==
    LET labels == PointLabels(line, attributes)
    IN \A l \in DOMAIN labels :
          Split(labels[l].value, ";")
              = C12_ByOriginalKey(attributes, SameLabel(attributes, labels[l].key))

C12_MergedInOriginalKeyOrder ==
    (AfterMetric /\ IsRendered(LastMetric)) =>
        \A i \in DOMAIN LastSamples :
            C12_LineLabels(LastSamples[i], PointOfLine(LastMetric, i).attributes)

(***************************************************************************)
(* C13: in every sample line the label block is either absent or made of   *)
(* "{", one or more key="value" pairs with exactly one comma between two   *)
(* of them, and "}": it never starts with a comma and is never "{}"; a     *)
(* data point without attributes in a scope named N is written as          *)
(* <name>{otel_scope_name="N"} <value>.                                    *)
(***************************************************************************)
LastScope == ScopeAt(rm, Order[next - 1])

C13_LineShape(line) ==
    LET n == Len(SampleName(line))
    IN IF HasLabelBlock(line)
       THEN /\ LabelBlock(line).ok
            /\ LabelBlock(line).pairs # <<>>
            /\ LabelBlock(line).end + 1 < Len(line)
            /\ line[LabelBlock(line).end + 1] = " "
            /\ LastField(line) = SubSeq(line, LabelBlock(line).end + 2, Len(line))
       ELSE /\ n + 1 < Len(line)
            /\ line[n + 1] = " "
            /\ LastField(line) = SubSeq(line, n + 2, Len(line))

C13_ScopeNameOnly(line, N) ==
    line = SampleName(line) \o <<"{","o","t","e","l","_","s","c","o","p","e","_","n","a","m","e","=">> \o escape_label_value(N)
               \o <<"}"," ">> \o LastField(line)

C13_LabelBlockWellFormed ==
    (AfterMetric /\ IsRendered(LastMetric)) =>
        \A i \in DOMAIN LastSamples :
            /\ C13_LineShape(LastSamples[i])
            /\ (/\ config = DefaultConfig
                /\ LastMetric.data.shape # "Histogram"
                /\ PointOfLine(LastMetric, i).attributes = <<>>
                /\ LastScope.name # <<>>
                /\ LastScope.version = <<>> /\ LastScope.schema_url = <<>>
                /\ LastScope.attributes = <<>>)
               => C13_ScopeNameOnly(LastSamples[i], LastScope.name)

(***************************************************************************)
(* C14 as stated: under the default configuration every sample line of     *)
(* every metric of a scope group carries otel_scope_name when the scope    *)
(* name is not empty, otel_scope_version and otel_scope_schema_url when    *)
(* present and not empty, and one label otel_scope_<sanitized key> for     *)
(* every scope attribute, whatever its key.                                *)
(***************************************************************************)
Carries(line, key, value) ==
    FindText(line, key \o <<"=">> \o escape_label_value(value)) # 0

C14_ScopeFields(line, scope) ==
    /\ scope.name # <<>> => Carries(line, <<"o","t","e","l","_","s","c","o","p","e","_","n","a","m","e">>, scope.name)
    /\ (scope.version # <<>> /\ scope.version[1] # <<>>)
          => Carries(line, <<"o","t","e","l","_","s","c","o","p","e","_","v","e","r","s","i","o","n">>, scope.version[1])
    /\ (scope.schema_url # <<>> /\ scope.schema_url[1] # <<>>)
          => Carries(line, <<"o","t","e","l","_","s","c","o","p","e","_","s","c","h","e","m","a","_","u","r","l">>, scope.schema_url[1])

C14_ScopeAttribute(line, attribute) ==
    Carries(line, <<"o","t","e","l","_","s","c","o","p","e","_">> \o sanitize_name(attribute.key), attribute.value)

C14_EveryScopeAttribute ==
    (AfterMetric /\ IsRendered(LastMetric) /\ config = DefaultConfig) =>
        \A i \in DOMAIN LastSamples :
            /\ C14_ScopeFields(LastSamples[i], LastScope)
            /\ \A a \in DOMAIN LastScope.attributes :
                  C14_ScopeAttribute(LastSamples[i], LastScope.attributes[a])

(***************************************************************************)
(* C14 as amended: under the default configuration every sample line of    *)
(* every metric of a scope group carries otel_scope_name when the scope    *)
(* name is not empty, otel_scope_version and otel_scope_schema_url when    *)
(* present and not empty, and one label otel_scope_<sanitized key> for     *)
(* every scope attribute whose key is not "name", "version" or             *)
(* "schema_url".                                                           *)
(***************************************************************************)
C14_ReservedKeys == { <<"n","a","m","e">>, <<"v","e","r","s","i","o","n">>, <<"s","c","h","e","m","a","_","u","r","l">> }

C14_ScopeLabelsOnEveryLine ==
    (AfterMetric /\ IsRendered(LastMetric) /\ config = DefaultConfig) =>
        LET samples == LastSamples
            scope == LastScope
        IN \A i \in DOMAIN samples :
              /\ C14_ScopeFields(samples[i], scope)
              /\ \A a \in DOMAIN scope.attributes :
                    scope.attributes[a].key \notin C14_ReservedKeys
                        => C14_ScopeAttribute(samples[i], scope.attributes[a])

C14_Witness ==
    /\ AfterMetric
    /\ config = DefaultConfig
    /\ LastMetric.data.shape = "Histogram"
    /\ LastScope = FullScope
    /\ Len(LastSamples) = 4
    /\ \A i \in DOMAIN LastSamples :
          /\ Carries(LastSamples[i], <<"o","t","e","l","_","s","c","o","p","e","_","n","a","m","e">>, <<"l","i","b">>)
          /\ Carries(LastSamples[i], <<"o","t","e","l","_","s","c","o","p","e","_","v","e","r","s","i","o","n">>, <<"1",".","0">>)
          /\ Carries(LastSamples[i], <<"o","t","e","l","_","s","c","o","p","e","_","s","c","h","e","m","a","_","u","r","l">>, <<"h","t","t","p",":","/","/","x">>)
          /\ Carries(LastSamples[i], <<"o","t","e","l","_","s","c","o","p","e","_","a","_","b">>, <<"c">>)

(***************************************************************************)
(* C15: the output of an export holds a target_info block exactly when     *)
(* target-info is enabled and the resource has an attribute; when the      *)
(* resource is empty or the feature is disabled, no line mentions          *)
(* target_info, no resource attribute appears and the resource step writes *)
(* nothing, so no empty block either.                                      *)
(***************************************************************************)
Exported == pc = "done"

\* no metric of the snapshot is itself named like the resource block
NoMetricNamedTargetInfo ==
    \A at \in {Order[i] : i \in DOMAIN Order} :
        FindText(sanitize_name(MetricAt(rm, at).name), <<"t","a","r","g","e","t","_","i","n","f","o">>) = 0

TargetInfoExpected == ~config.disable_target_info /\ rm.resource # {}

C15_NoTraceOfResource ==
    /\ FindText(out, <<"t","a","r","g","e","t","_","i","n","f","o">>) = 0
    /\ \A kv \in rm.resource :
          /\ FindText(out, kv.key) = 0
          /\ FindText(out, sanitize_name(kv.key) \o <<"=">>) = 0
          /\ FindText(out, kv.value) = 0
    /\ LastWritten = <<>>

C16_Block(lines, resource) ==
    LET n == Len(lines)
    IN /\ n >= 3
       /\ lines[n - 2] = <<"#"," ","T","Y","P","E"," ","t","a","r","g","e","t","_","i","n","f","o"," ","g","a","u","g","e">>
       /\ lines[n - 1] = <<"#"," ","H","E","L","P"," ","t","a","r","g","e","t","_","i","n","f","o"," ","T","a","r","g","e","t"," ","m","e","t","a","d","a","t","a">>
       /\ SampleName(lines[n]) = <<"t","a","r","g","e","t","_","i","n","f","o">>
       /\ HasLabelBlock(lines[n])
       /\ LabelBlock(lines[n]).ok
       /\ SubSeq(lines[n], LabelBlock(lines[n]).end + 1, Len(lines[n])) = <<" ","1">>
       /\ Len(Labels(lines[n])) = Cardinality(resource)
       /\ \A kv \in resource :
             \E l \in DOMAIN Labels(lines[n]) :
                 /\ Labels(lines[n])[l].key = sanitize_name(kv.key)
                 /\ Labels(lines[n])[l].value = EscapeDebug(kv.value)
       /\ \A i \in 1..(n - 3) : FindText(lines[i], <<"t","a","r","g","e","t","_","i","n","f","o">>) = 0

C16_ResourceBlockOnceAtEnd ==
    (Exported /\ NoMetricNamedTargetInfo /\ TargetInfoExpected) =>
        /\ C16_Block(SplitLines(out), rm.resource)
        /\ out[Len(out)] = "\n"
        /\ Len(SplitLines(LastWritten)) = 3

C16_Witness ==
    /\ Exported
    /\ ~config.disable_target_info
    /\ Cardinality(rm.resource) = 2
    /\ mark > 0
    /\ C16_Block(SplitLines(out), rm.resource)
    /\ Len(SplitLines(out)) > 3

(***************************************************************************)
(* C17: when the sink rejects a write during serialization, export returns *)
(* that error at once: no write is attempted on the sink after the first   *)
(* rejected one, and the export does not report success.                   *)
(***************************************************************************)
\* the sink has rejected a write
Rejected == sink # <<>> /\ sink.rejects /\ writes > sink.after

C17_WriteErrorReturnedAtOnce ==
    /\ Rejected =>
          /\ writes = sink.after + 1
          /\ pc = "failed"
          /\ result = <<"Err", "SinkWriteError">>
    /\ pc = "done" => (~Rejected /\ result = <<"Ok">>)
    /\ result = <<"Ok">> => ~Rejected

\* the sink rejects a write of the resource block, after the lines of a metric
C17_Witness ==
    /\ Rejected
    /\ pc = "failed"
    /\ result = <<"Err", "SinkWriteError">>
    /\ Len(Order) > 0
    /\ next > Len(Order)
    /\ writes = sink.after + 1
    /\ FindText(out, <<"#"," ","T","Y","P","E"," ","t","a","r","g","e","t","_","i","n","f","o"," ","g","a","u","g","e">>) # 0

(***************************************************************************)
(* C18: when the pull of the snapshot fails, export returns an error that  *)
(* wraps the collection error, the pull is made exactly once, and nothing  *)
(* is written to the sink.                                                 *)
(***************************************************************************)
PullFailed == pipeline # <<>> /\ ~pipeline.ok /\ pc # "export"

C18_CollectErrorWrappedNoOutput ==
    /\ PullFailed =>
          /\ pc = "failed"
          /\ result = <<"Err", "Other", pipeline.error>>
          /\ collects = 1
          /\ writes = 0
          /\ out = <<>>
    /\ collects <= 1

C18_Witness ==
    /\ PullFailed
    /\ pipeline.error = "Timeout"
    /\ sink = AcceptingSink
    /\ result = <<"Err", "Other", "Timeout">>
    /\ collects = 1
    /\ out = <<>>

(***************************************************************************)
(* C19: with an exporter built with without_units no metric name receives  *)
(* a unit suffix and no "# UNIT" line is written; the histogram            *)
(* http.server.request.duration with unit ms is written under the name     *)
(* http_server_request_duration and "milliseconds" is nowhere in the       *)
(* output.                                                                 *)
(***************************************************************************)
\* the sanitized name with "_total" when the configuration adds it
C19_NameWithoutUnit(metric) ==
    LET N == sanitize_name(metric.name)
    IN IF /\ IsCounterData(metric.data)
          /\ ~config.without_counter_suffixes
          /\ ~ends_with(N, <<"_","t","o","t","a","l">>)
       THEN N \o <<"_","t","o","t","a","l">>
       ELSE N

C19_SampleSuffixes(metric) ==
    IF metric.data.shape = "Histogram"
    THEN { <<"_","c","o","u","n","t">>, <<"_","s","u","m">>, <<"_","b","u","c","k","e","t">> }
    ELSE { <<>> }

C19_NoUnitSuffixNoUnitLine ==
    (AfterMetric /\ IsRendered(LastMetric) /\ config.without_units) =>
        /\ \A i \in DOMAIN LastLines : ~StartsWith(LastLines[i], <<"#"," ","U","N","I","T">>)
        /\ TypeLineName(LastLines[1]) = C19_NameWithoutUnit(LastMetric)
        /\ \A i \in DOMAIN LastSamples :
              \E suffix \in C19_SampleSuffixes(LastMetric) :
                  SampleName(LastSamples[i]) = C19_NameWithoutUnit(LastMetric) \o suffix
        /\ (LastMetric.name = <<"h","t","t","p",".","s","e","r","v","e","r",".","r","e","q","u","e","s","t",".","d","u","r","a","t","i","o","n">> /\ LastMetric.unit = <<"m","s">>)
              => /\ TypeLineName(LastLines[1]) = <<"h","t","t","p","_","s","e","r","v","e","r","_","r","e","q","u","e","s","t","_","d","u","r","a","t","i","o","n">>
                 /\ FindText(LastWritten, <<"m","i","l","l","i","s","e","c","o","n","d","s">>) = 0

C19_Witness ==
    /\ AfterMetric
    /\ config.without_units
    /\ ~config.without_counter_suffixes
    /\ LastMetric.name = <<"h","t","t","p",".","s","e","r","v","e","r",".","r","e","q","u","e","s","t",".","d","u","r","a","t","i","o","n">>
    /\ LastMetric.unit = <<"m","s">>
    /\ LastLines[1] = <<"#"," ","T","Y","P","E"," ","h","t","t","p","_","s","e","r","v","e","r","_","r","e","q","u","e","s","t","_","d","u","r","a","t","i","o","n"," ","h","i","s","t","o","g","r","a","m">>
    /\ Len(LastSamples) = 5
    /\ FindText(LastWritten, <<"m","i","l","l","i","s","e","c","o","n","d","s">>) = 0

(***************************************************************************)
(* C20: with an exporter built with without_counter_suffixes no counter    *)
(* name receives "_total": the cumulative monotonic counter http.requests  *)
(* is written as http_requests, and a name carries "_total" only when the  *)
(* sanitized metric name already ended with it.                            *)
(***************************************************************************)
C20_NameWithoutTotal(metric) ==
    add_unit_suffix(sanitize_name(metric.name),
                    IF config.without_units THEN <<>> ELSE convert_unit(metric.unit))

C20_NoTotalSuffix ==
    (AfterMetric /\ IsRendered(LastMetric) /\ config.without_counter_suffixes) =>
        /\ TypeLineName(LastLines[1]) = C20_NameWithoutTotal(LastMetric)
        /\ \A i \in DOMAIN LastSamples :
              \E suffix \in C19_SampleSuffixes(LastMetric) :
                  SampleName(LastSamples[i]) = C20_NameWithoutTotal(LastMetric) \o suffix
        /\ FindText(TypeLineName(LastLines[1]), <<"_","t","o","t","a","l">>) # 0
              => ends_with(sanitize_name(LastMetric.name), <<"_","t","o","t","a","l">>)
        /\ (LastMetric.name = <<"h","t","t","p",".","r","e","q","u","e","s","t","s">> /\ IsCounterData(LastMetric.data))
              => /\ LastLines[1] = <<"#"," ","T","Y","P","E"," ","h","t","t","p","_","r","e","q","u","e","s","t","s"," ","c","o","u","n","t","e","r">>
                 /\ \A i \in DOMAIN LastSamples :
                       SampleName(LastSamples[i]) = <<"h","t","t","p","_","r","e","q","u","e","s","t","s">>

C20_Witness ==
    /\ AfterMetric
    /\ config.without_counter_suffixes
    /\ ~config.without_units
    /\ LastMetric.name = <<"h","t","t","p",".","r","e","q","u","e","s","t","s">>
    /\ IsCounterData(LastMetric.data)
    /\ LastLines[1] = <<"#"," ","T","Y","P","E"," ","h","t","t","p","_","r","e","q","u","e","s","t","s"," ","c","o","u","n","t","e","r">>
    /\ Len(LastSamples) = 1
    /\ SampleName(LastSamples[1]) = <<"h","t","t","p","_","r","e","q","u","e","s","t","s">>


(***************************************************************************)
(* C21: with an exporter built with without_scope_info no line of a metric *)
(* holds an otel_scope_ label (name, version, schema_url or attribute) and *)
(* the scope name appears nowhere in the lines of the metric; label blocks *)
(* apart, the lines are those the same configuration writes with scope     *)
(* labels (same names, unit suffix, "_total", comments and values), and    *)
(* the target_info block is still written for a non-empty resource.        *)
(***************************************************************************)
\* a line without its label block
WithoutLabelBlock(line) ==
    IF HasLabelBlock(line) THEN SampleName(line) \o <<" ">> \o LastField(line) ELSE line

WithoutLabelBlocks(lines) == [i \in DOMAIN lines |-> WithoutLabelBlock(lines[i])]

C21_NoScopeLabel ==
    /\ FindText(LastWritten, <<"o","t","e","l","_","s","c","o","p","e","_">>) = 0
    /\ LastScope.name # <<>> => FindText(LastWritten, LastScope.name) = 0

C21_OtherFeaturesKept ==
    \E chunks \in PrometheusSerializer_serialize_metric(
                     [config EXCEPT !.disable_scope_info = FALSE], LastMetric, LastScope) :
        WithoutLabelBlocks(SplitLines(Flatten(chunks))) = WithoutLabelBlocks(LastLines)

C21_WithoutScopeInfoNoScopeLabels ==
    /\ (AfterMetric /\ IsRendered(LastMetric) /\ config.disable_scope_info) =>
          C21_NoScopeLabel /\ C21_OtherFeaturesKept
    /\ (Exported /\ NoMetricNamedTargetInfo /\ config.disable_scope_info) =>
          /\ FindText(out, <<"o","t","e","l","_","s","c","o","p","e","_">>) = 0
          /\ TargetInfoExpected <=> FindText(LastWritten, <<"t","a","r","g","e","t","_","i","n","f","o","{">>) # 0

C21_Witness ==
    /\ AfterMetric
    /\ config = ExporterBuilder_build(FALSE, FALSE, FALSE, TRUE)
    /\ LastScope = FullScope
    /\ LastMetric.name = <<"r","e","q","u","e","s","t",".","d","u","r","a","t","i","o","n">>
    /\ LastLines = << <<"#"," ","T","Y","P","E"," ","r","e","q","u","e","s","t","_","d","u","r","a","t","i","o","n","_","t","o","t","a","l","_","m","i","l","l","i","s","e","c","o","n","d","s"," ","c","o","u","n","t","e","r">>,
                      <<"#"," ","U","N","I","T"," ","r","e","q","u","e","s","t","_","d","u","r","a","t","i","o","n","_","t","o","t","a","l","_","m","i","l","l","i","s","e","c","o","n","d","s"," ","m","i","l","l","i","s","e","c","o","n","d","s">>,
                      <<"r","e","q","u","e","s","t","_","d","u","r","a","t","i","o","n","_","t","o","t","a","l","_","m","i","l","l","i","s","e","c","o","n","d","s","{","m","e","t","h","o","d","=","\"","G","E","T","\"","}"," ","1">> >>


(***************************************************************************)
(* C22: for every metric with a non-empty description the HELP comment is  *)
(* the one line "# HELP <name> <description>" in which every backslash,    *)
(* line feed, tab and carriage return of the description is escaped; the   *)
(* lines after it are the UNIT line and the sample lines.                  *)
(***************************************************************************)
RECURSIVE C22_Escaped(_)
C22_Escaped(description) ==
    IF description = <<>> THEN <<>>
    ELSE (CASE Head(description) = "\\" -> <<"\\","\\">>
            [] Head(description) = "\n" -> <<"\\", "n">>
            [] Head(description) = "\t" -> <<"\\", "t">>
            [] Head(description) = "\r" -> <<"\\", "r">>
            [] OTHER -> <<Head(description)>>)
         \o C22_Escaped(Tail(description))

C22_HelpOnOneLineEscaped ==
    (AfterMetric /\ IsRendered(LastMetric) /\ LastMetric.description # <<>>) =>
        /\ Len(LastLines) >= 2
        /\ LastLines[2] = <<"#"," ","H","E","L","P"," ">> \o TypeLineName(LastLines[1]) \o <<" ">>
                            \o C22_Escaped(LastMetric.description)
        /\ \A i \in 3..Len(LastLines) :
              StartsWith(LastLines[i], <<"#"," ","U","N","I","T"," ">>) \/ IsSampleLine(LastLines[i])


(***************************************************************************)
(* C23: for every rendered metric the header comes before the sample lines *)
(* and in the order TYPE, HELP, UNIT: the first line is the only TYPE      *)
(* line, "# TYPE <name> <kind>"; the second line is a HELP line for <name> *)
(* exactly when the description is not empty; a line "# UNIT <name>        *)
(* <unit>" with the converted unit follows exactly when units are enabled  *)
(* and the converted unit is not empty; every sample line comes after      *)
(* these and is named <name>, or <name> with a histogram suffix.           *)
(***************************************************************************)
C23_Starting(lines, prefix) == {i \in DOMAIN lines : StartsWith(lines[i], prefix)}

C23_LinesStarting(prefix) == C23_Starting(LastLines, prefix)

C23_SampleNames(final_name) ==
    { final_name, final_name \o <<"_","b","u","c","k","e","t">>, final_name \o <<"_","s","u","m">>, final_name \o <<"_","c","o","u","n","t">> }

C23_HeaderThenSamples ==
    (AfterMetric /\ IsRendered(LastMetric)) =>
        LET lines == LastLines
            types == C23_Starting(lines, <<"#"," ","T","Y","P","E"," ">>)
            helps == C23_Starting(lines, <<"#"," ","H","E","L","P"," ">>)
            units == C23_Starting(lines, <<"#"," ","U","N","I","T"," ">>)
            samples == {i \in DOMAIN lines : IsSampleLine(lines[i])}
            final_name == TypeLineName(lines[1])
            sample_names == C23_SampleNames(final_name)
            converted_unit == IF config.without_units THEN <<>> ELSE convert_unit(LastMetric.unit)
            header == types \cup helps \cup units
        IN /\ types = {1}
           /\ LastField(lines[1]) \in {T_gauge, T_counter, T_histogram}
           /\ helps = IF LastMetric.description # <<>> THEN {2} ELSE {}
           /\ \A h \in helps :
                 StartsWith(lines[h], <<"#"," ","H","E","L","P"," ">> \o final_name \o <<" ">> )
           /\ Cardinality(units) = IF converted_unit # <<>> THEN 1 ELSE 0
           /\ \A u \in units :
                 /\ lines[u] = <<"#"," ","U","N","I","T"," ">> \o final_name \o <<" ">> \o converted_unit
                 /\ \A h \in types \cup helps : h < u
           /\ \A i \in samples :
                 /\ \A h \in header : h < i
                 /\ SampleName(lines[i]) \in sample_names

C23_Witness ==
    /\ AfterMetric
    /\ config = DefaultConfig
    /\ Len(LastLines) = 4
    /\ LastLines[1] = <<"#"," ","T","Y","P","E"," ","s","y","s","t","e","m","_","u","p","t","i","m","e","_","s","e","c","o","n","d","s"," ","g","a","u","g","e">>
    /\ LastLines[2] = <<"#"," ","H","E","L","P"," ","s","y","s","t","e","m","_","u","p","t","i","m","e","_","s","e","c","o","n","d","s"," ","U","p","t","i","m","e">>
    /\ LastLines[3] = <<"#"," ","U","N","I","T"," ","s","y","s","t","e","m","_","u","p","t","i","m","e","_","s","e","c","o","n","d","s"," ","s","e","c","o","n","d","s">>
    /\ SampleName(LastLines[4]) = <<"s","y","s","t","e","m","_","u","p","t","i","m","e","_","s","e","c","o","n","d","s">>


(***************************************************************************)
(* C24: every label value of every label block (attributes, merged values, *)
(* le, scope labels, target_info) is written between double quotes with    *)
(* every double quote and backslash preceded by a backslash and line feed, *)
(* tab, carriage return written as \n, \t, \r: the label block of a line   *)
(* reads as key="value" pairs up to its "}" on the same line, each value   *)
(* the escaped form of the value it was written for.                       *)
(***************************************************************************)
RECURSIVE C24_Escaped(_)
C24_Escaped(value) ==
    IF value = <<>> THEN <<>>
    ELSE (CASE Head(value) = "\"" -> <<"\\", "\"">>
            [] Head(value) = "\\" -> <<"\\", "\\">>
            [] Head(value) = "\n" -> <<"\\", "n">>
            [] Head(value) = "\t" -> <<"\\", "t">>
            [] Head(value) = "\r" -> <<"\\", "r">>
            [] OTHER -> <<Head(value)>>)
         \o C24_Escaped(Tail(value))

\* no bare quote, line feed, tab or carriage return, and every backslash
\* starts one of the five escape sequences
RECURSIVE C24_WellEscaped(_)
C24_WellEscaped(text) ==
    IF text = <<>> THEN TRUE
    ELSE IF Head(text) = "\\"
         THEN /\ Len(text) >= 2
              /\ text[2] \in {"\"", "\\", "n", "t", "r"}
              /\ C24_WellEscaped(SubSeq(text, 3, Len(text)))
    ELSE IF Head(text) \in {"\"", "\n", "\t", "\r"} THEN FALSE
    ELSE C24_WellEscaped(Tail(text))

\* the label block of a sample line, read past a comma or nothing after "{"
C24_Block(line) ==
    LET n == Len(SampleName(line))
    IN IF ~HasLabelBlock(line) THEN [ok |-> TRUE, pairs |-> <<>>, end |-> n]
       ELSE IF n + 2 <= Len(line) /\ line[n + 2] = "}"
            THEN [ok |-> TRUE, pairs |-> <<>>, end |-> n + 2]
       ELSE IF n + 2 <= Len(line) /\ line[n + 2] = ","
            THEN ParsePairs(line, n + 3)
       ELSE ParsePairs(line, n + 2)

C24_Has(pairs, key, value) ==
    \E l \in DOMAIN pairs : pairs[l].key = key /\ pairs[l].value = C24_Escaped(value)

C24_Line(line, attributes, scope) ==
    LET block == C24_Block(line)
        pairs == block.pairs
    IN /\ block.ok
       /\ block.end < Len(line) /\ line[block.end + 1] = " "
       /\ \A l \in DOMAIN pairs : C24_WellEscaped(pairs[l].value)
       /\ \A a \in DOMAIN attributes :
             \E l \in DOMAIN pairs :
                 /\ pairs[l].key = sanitize_name(attributes[a].key)
                 /\ LET parts == Split(pairs[l].value, ";")
                    IN \E part \in DOMAIN parts :
                          parts[part] = C24_Escaped(attributes[a].value)
       /\ scope.name # <<>> => C24_Has(pairs, <<"o","t","e","l","_","s","c","o","p","e","_","n","a","m","e">>, scope.name)
       /\ \A a \in DOMAIN scope.attributes :
             scope.attributes[a].key \notin C14_ReservedKeys =>
                 C24_Has(pairs, <<"o","t","e","l","_","s","c","o","p","e","_">> \o sanitize_name(scope.attributes[a].key),
                         scope.attributes[a].value)

C24_LabelValuesEscaped ==
    /\ (AfterMetric /\ IsRendered(LastMetric)) =>
          LET samples == LastSamples
              metric == LastMetric
              scope == IF config.disable_scope_info THEN BareScope ELSE LastScope
          IN \A i \in DOMAIN samples :
                /\ C24_Line(samples[i], PointOfLine(metric, i).attributes, scope)
                /\ IsBucketLine(samples[i]) =>
                      LET pairs == C24_Block(samples[i]).pairs
                      IN \E l \in DOMAIN pairs : pairs[l].key = <<"l","e">>
    /\ (Exported /\ TargetInfoExpected) =>
          LET lines == SplitLines(LastWritten)
              block == C24_Block(lines[Len(lines)])
          IN /\ block.ok
             /\ SubSeq(lines[Len(lines)], block.end + 1, Len(lines[Len(lines)])) = <<" ","1">>
             /\ \A l \in DOMAIN block.pairs : C24_WellEscaped(block.pairs[l].value)
             /\ \A kv \in rm.resource : C24_Has(block.pairs, sanitize_name(kv.key), kv.value)

C24_Witness ==
    /\ AfterMetric
    /\ LastScope = QuoteScope
    /\ Len(LastSamples) = 1
    /\ LastSamples[1] = <<"v","{","k","_","1","=","\"","a","\\","n","b",";","a","\\","\"","b","\"",",","o","t","e","l","_","s","c","o","p","e","_","n","a","m","e","=","\"","s","\\","\"","c","\"",",","o","t","e","l","_","s","c","o","p","e","_","q","=","\"","a","\\","n","b","\"","}"," ","1">>


(***************************************************************************)
(* C27: for every rendered metric, whatever its name and unit, the final   *)
(* name written in the TYPE, HELP and UNIT lines and the name of every     *)
(* sample line match [A-Za-z_:][A-Za-z0-9_:]*, the converted unit          *)
(* included.                                                               *)
(***************************************************************************)
\* the name a comment line is written for: the text after "# TYPE ",
\* "# HELP " or "# UNIT " up to the next space
C27_CommentName(line) ==
    LET rest == SubSeq(line, 8, Len(line))
        n == find(rest, " ")
    IN IF n = 0 THEN rest ELSE SubSeq(rest, 1, n - 1)

C27_FinalNameIsLegal ==
    (AfterMetric /\ IsRendered(LastMetric)) =>
        /\ \A i \in C23_LinesStarting(<<"#"," ","T","Y","P","E"," ">>) \cup C23_LinesStarting(<<"#"," ","H","E","L","P"," ">>)
                      \cup C23_LinesStarting(<<"#"," ","U","N","I","T"," ">>) :
              MatchesIdentifier(C27_CommentName(LastLines[i]))
        /\ \A i \in DOMAIN LastSamples : MatchesIdentifier(SampleName(LastSamples[i]))


(***************************************************************************)
(* C28: no label block of the output holds the same label key twice, in    *)
(* the sample lines of a metric and in the target_info line.               *)
(***************************************************************************)
C28_DistinctKeys(line) ==
    LET pairs == C24_Block(line).pairs
    IN \A l, m \in DOMAIN pairs : pairs[l].key = pairs[m].key => l = m

C28_NoLabelKeyTwice ==
    /\ (AfterMetric /\ IsRendered(LastMetric)) =>
          \A i \in DOMAIN LastSamples : C28_DistinctKeys(LastSamples[i])
    /\ (Exported /\ LastWritten # <<>>) =>
          C28_DistinctKeys(LastLines[Len(LastLines)])


(***************************************************************************)
(* C29: in the output of one export no metric name is declared by more     *)
(* than one TYPE line.                                                     *)
(***************************************************************************)
C29_OneTypeLinePerName ==
    Exported =>
        LET lines == SplitLines(out)
            types == {i \in DOMAIN lines : StartsWith(lines[i], <<"#"," ","T","Y","P","E"," ">>)}
        IN \A i, j \in types :
              TypeLineName(lines[i]) = TypeLineName(lines[j]) => i = j


(***************************************************************************)
(* C30: under the default configuration, when the sink has rejected a      *)
(* write, what the sink holds is the beginning of a text that serialize    *)
(* writes for the same snapshot to a sink that accepts every write; and on *)
(* a sink that accepts every write serialize never fails: it returns Ok    *)
(* with a whole text.                                                      *)
(***************************************************************************)
C30_IsPrefixOfSuccessfulOutput ==
    \E text \in serialize(rm) : StartsWith(text, out)

Finished(c) == calls[c].pc = "done"

\* a line with the labels of its block as a set
C25_LineUpToLabelOrder(line) ==
    IF IsSampleLine(line)
    THEN LET block == C24_Block(line)
         IN [name |-> SampleName(line),
             labels |-> {block.pairs[l] : l \in DOMAIN block.pairs},
             count |-> Len(block.pairs),
             rest |-> SubSeq(line, block.end + 1, Len(line))]
    ELSE [name |-> line, labels |-> {}, count |-> 0, rest |-> <<>>]

C25_UpToLabelOrder(text) ==
    LET lines == SplitLines(text)
    IN [i \in DOMAIN lines |-> C25_LineUpToLabelOrder(lines[i])]

C25_SameSnapshotSameBytes ==
    \A c, d \in DOMAIN calls :
        (Finished(c) /\ Finished(d) /\ calls[c].rm = calls[d].rm)
            => calls[c].out = calls[d].out

C25_SameSnapshotSameLinesUpToLabelOrder ==
    \A c, d \in DOMAIN calls :
        (Finished(c) /\ Finished(d) /\ calls[c].rm = calls[d].rm)
            => C25_UpToLabelOrder(calls[c].out) = C25_UpToLabelOrder(calls[d].out)

C25_Witness ==
    \E c, d \in DOMAIN calls :
        /\ Finished(c) /\ Finished(d)
        /\ calls[c].rm = calls[d].rm
        /\ calls[c].out # calls[d].out
        /\ C25_UpToLabelOrder(calls[c].out) = C25_UpToLabelOrder(calls[d].out)
        /\ FindText(calls[c].out, <<"g","{","a","_","b","=","\"","x","\"",",","c","=","\"","y","\"",",","o","t","e","l","_","s","c","o","p","e","_","n","a","m","e","=","\"","t","e","s","t","\"","}">>) # 0
        /\ FindText(calls[d].out, <<"g","{","c","=","\"","y","\"",",","a","_","b","=","\"","x","\"",",","o","t","e","l","_","s","c","o","p","e","_","n","a","m","e","=","\"","t","e","s","t","\"","}">>) # 0

(***************************************************************************)
(* C26: no state is shared between export calls: whatever the other calls  *)
(* on the exporter and its clones have done and however their steps        *)
(* interleave, a call pulls once, its rm is the state of the pipeline at   *)
(* the time of its pull, and its sink holds the beginning of a             *)
(* serialization of that rm, the whole of it when the call returns Ok:     *)
(* never a byte written by another call.                                   *)
(***************************************************************************)
C26_CallOnItsOwn(c) ==
    LET call == calls[c]
    IN IF call.pc = "export"
       THEN call.collects = 0 /\ call.out = <<>>
       ELSE /\ call.collects = 1
            /\ call.pulled_at \in DOMAIN recorded
            /\ call.rm = recorded[call.pulled_at]
            /\ LET texts == serialize(call.rm)
               IN IF call.pc = "done"
                  THEN call.out \in texts /\ call.result = <<"Ok">>
                  ELSE \E text \in texts : StartsWith(text, call.out)

C26_NoStateSharedBetweenCalls == \A c \in DOMAIN calls : C26_CallOnItsOwn(c)

\* two calls in the middle of their serialization, each of another state
\* of the pipeline
C26_Witness ==
    \E c, d \in DOMAIN calls :
        /\ calls[c].pc = "serialize" /\ calls[c].next = 2
        /\ calls[d].pc = "serialize" /\ calls[d].next = 2
        /\ calls[c].rm # calls[d].rm
        /\ calls[c].out # calls[d].out
        /\ calls[c].pulled_at < calls[d].pulled_at

=============================================================================
